---- MODULE Spec2Model ----
(***************************************************************************)
(* Hybrid search of the SafeChem portal: the useHybridSearch hook          *)
(* (hooks/useHybridSearch) over the popularChemicals catalog, with the     *)
(* remote resolution (searchChemicalsAutocomplete) as its environment.     *)
(*                                                                         *)
(* Strings are sequences of UTF-16 code units, so that toLowerCase,        *)
(* includes and toString are computed rather than assumed.                 *)
(*                                                                         *)
(* One step is one event of the single-threaded runtime together with the  *)
(* state updates it batches: a render with a new query, the effect of the  *)
(* committed render (cleanup of the previous effect, then body), the       *)
(* removal of the component, the cleanup that follows it, a timer          *)
(* callback, or the continuation of searchAPI after its await.  Effects    *)
(* and cleanups run after the commit, so timer callbacks and continuations *)
(* can run between a commit and them.  The effect's closure holds the      *)
(* cachedResults of its render, the value the state had before the effect  *)
(* body ran.                                                               *)
(***************************************************************************)
EXTENDS Integers, Sequences, FiniteSets, TLC

VARIABLES
  mounted,        \* the component using the hook is mounted
  query,          \* the hook's argument in the committed render
  cachedResults,  \* useState<Chemical[]>([])
  apiResults,     \* useState<Chemical[]>([])
  loading,        \* useState(false)
  searchSource,   \* useState<'cache' | 'api' | 'both'>('cache')
  timers,         \* pending setTimeout callbacks, each with its effect closure
  inflight,       \* searchAPI calls suspended at the await
  effectPending,  \* the committed render's effect has not run yet
  cleanupPending, \* the component has been removed and the effect's cleanup has not run yet
  gen,            \* number of effect runs so far (identifies the effect instance)
  sinceChange,    \* time elapsed since the query last changed, capped at DEBOUNCE_MS
  issued,         \* history: the effect instances whose searchAPI has been started
  last,           \* history: the step that led to this state
  rpc,            \* searchChemicalsAutocomplete: where the call stands
  rquery,         \* its query argument
  rlimit,         \* its limit argument
  rnames,         \* the names of the fan-out that is running
  rdone,          \* the settled lookups of the fan-out, in the order of rnames
  rvalid,         \* validCids
  rcalls,         \* history: the remote calls made
  rresult         \* the value the call resolved with

hvars == <<mounted, query, cachedResults, apiResults, loading, searchSource,
           timers, inflight, effectPending, cleanupPending, gen, sinceChange,
           issued, last>>

rvars == <<rpc, rquery, rlimit, rnames, rdone, rvalid, rcalls, rresult>>

vars == <<hvars, rvars>>

----------------------------------------------------------------------------
(* Bounds of the model *)

\* effect runs explored (the one of the first render plus MaxChanges - 1 query changes)
MaxChanges == 3

\* length of the longest remote response explored
MaxResp == 2

\* length of the longest suggestion list explored
MaxSugg == 3

\* length of the longest query given to the Local Index on its own
MaxQueryLen == 3

\* length of the one suggestion list explored that exceeds the lookup cap
LongSuggCount == 22

\* time units by which one Tick advances the clock
TickStep == 100

----------------------------------------------------------------------------
(* Program constants *)

\* setTimeout(..., 200)
DEBOUNCE_MS == 200

\* .slice(0, 10) of the cached search
CACHE_LIMIT == 10

\* searchChemicalsAutocomplete(query, 50)
API_LIMIT == 50

----------------------------------------------------------------------------
(* Strings *)

Min(a, b) == IF a < b THEN a ELSE b

Max(a, b) == IF a > b THEN a ELSE b

\* One element of a string is one UTF-16 code unit.  A unit is written as
\* its character, "a", where a string constant can hold the character, and as
\* its code, "U+0130", where it cannot (a code above U+00FF whose low byte is
\* below 80, a surrogate, a control character, the quotation mark, the
\* backslash and the grave accent).  A character beyond U+FFFF is two units,
\* the lead and the trail surrogate.

\* lower-case mappings of the block Basic Latin (U+0000 to U+007F)
LowerBasicLatin ==
     "A" :> "a" @@ "B" :> "b" @@ "C" :> "c" @@ "D" :> "d" @@ "E" :> "e"
  @@ "F" :> "f" @@ "G" :> "g" @@ "H" :> "h" @@ "I" :> "i" @@ "J" :> "j"
  @@ "K" :> "k" @@ "L" :> "l" @@ "M" :> "m" @@ "N" :> "n" @@ "O" :> "o"
  @@ "P" :> "p" @@ "Q" :> "q" @@ "R" :> "r" @@ "S" :> "s" @@ "T" :> "t"
  @@ "U" :> "u" @@ "V" :> "v" @@ "W" :> "w" @@ "X" :> "x" @@ "Y" :> "y"
  @@ "Z" :> "z"

\* lower-case mappings of the block Latin-1 Supplement (U+0080 to U+00FF)
LowerLatin1Supplement ==
     "À" :> "à" @@ "Á" :> "á" @@ "Â" :> "â" @@ "Ã" :> "ã" @@ "Ä" :> "ä"
  @@ "Å" :> "å" @@ "Æ" :> "æ" @@ "Ç" :> "ç" @@ "È" :> "è" @@ "É" :> "é"
  @@ "Ê" :> "ê" @@ "Ë" :> "ë" @@ "Ì" :> "ì" @@ "Í" :> "í" @@ "Î" :> "î"
  @@ "Ï" :> "ï" @@ "Ð" :> "ð" @@ "Ñ" :> "ñ" @@ "Ò" :> "ò" @@ "Ó" :> "ó"
  @@ "Ô" :> "ô" @@ "Õ" :> "õ" @@ "Ö" :> "ö" @@ "Ø" :> "ø" @@ "Ù" :> "ù"
  @@ "Ú" :> "ú" @@ "Û" :> "û" @@ "Ü" :> "ü" @@ "Ý" :> "ý" @@ "Þ" :> "þ"

\* lower-case mappings of the block Latin Extended-A (U+0100 to U+017F)
LowerLatinExtendedA ==
     "U+0100" :> "U+0101" @@ "U+0102" :> "U+0103" @@ "U+0104" :> "U+0105" @@ "U+0106" :> "U+0107" @@ "U+0108" :> "U+0109"
  @@ "U+010A" :> "U+010B" @@ "U+010C" :> "U+010D" @@ "U+010E" :> "U+010F" @@ "U+0110" :> "U+0111" @@ "U+0112" :> "U+0113"
  @@ "U+0114" :> "U+0115" @@ "U+0116" :> "U+0117" @@ "U+0118" :> "U+0119" @@ "U+011A" :> "U+011B" @@ "U+011C" :> "U+011D"
  @@ "U+011E" :> "U+011F" @@ "U+0120" :> "U+0121" @@ "U+0122" :> "U+0123" @@ "U+0124" :> "U+0125" @@ "U+0126" :> "U+0127"
  @@ "U+0128" :> "U+0129" @@ "U+012A" :> "U+012B" @@ "U+012C" :> "U+012D" @@ "U+012E" :> "U+012F" @@ "U+0132" :> "U+0133"
  @@ "U+0134" :> "U+0135" @@ "U+0136" :> "U+0137" @@ "U+0139" :> "U+013A" @@ "U+013B" :> "U+013C" @@ "U+013D" :> "U+013E"
  @@ "U+013F" :> "U+0140" @@ "U+0141" :> "U+0142" @@ "U+0143" :> "U+0144" @@ "U+0145" :> "U+0146" @@ "U+0147" :> "U+0148"
  @@ "U+014A" :> "U+014B" @@ "U+014C" :> "U+014D" @@ "U+014E" :> "U+014F" @@ "U+0150" :> "U+0151" @@ "U+0152" :> "U+0153"
  @@ "U+0154" :> "U+0155" @@ "U+0156" :> "U+0157" @@ "U+0158" :> "U+0159" @@ "U+015A" :> "U+015B" @@ "U+015C" :> "U+015D"
  @@ "U+015E" :> "U+015F" @@ "U+0160" :> "U+0161" @@ "U+0162" :> "U+0163" @@ "U+0164" :> "U+0165" @@ "U+0166" :> "U+0167"
  @@ "U+0168" :> "U+0169" @@ "U+016A" :> "U+016B" @@ "U+016C" :> "U+016D" @@ "U+016E" :> "U+016F" @@ "U+0170" :> "U+0171"
  @@ "U+0172" :> "U+0173" @@ "U+0174" :> "U+0175" @@ "U+0176" :> "U+0177" @@ "U+0178" :> "ÿ" @@ "U+0179" :> "U+017A"
  @@ "U+017B" :> "U+017C" @@ "U+017D" :> "U+017E"

\* lower-case mappings of the block Latin Extended-B (U+0180 to U+024F)
LowerLatinExtendedB ==
     "Ɓ" :> "U+0253" @@ "Ƃ" :> "ƃ" @@ "Ƅ" :> "ƅ" @@ "Ɔ" :> "U+0254" @@ "Ƈ" :> "ƈ"
  @@ "Ɖ" :> "U+0256" @@ "Ɗ" :> "U+0257" @@ "Ƌ" :> "ƌ" @@ "Ǝ" :> "ǝ" @@ "Ə" :> "U+0259"
  @@ "Ɛ" :> "U+025B" @@ "Ƒ" :> "ƒ" @@ "Ɠ" :> "U+0260" @@ "Ɣ" :> "U+0263" @@ "Ɩ" :> "U+0269"
  @@ "Ɨ" :> "U+0268" @@ "Ƙ" :> "ƙ" @@ "Ɯ" :> "U+026F" @@ "Ɲ" :> "U+0272" @@ "Ɵ" :> "U+0275"
  @@ "Ơ" :> "ơ" @@ "Ƣ" :> "ƣ" @@ "Ƥ" :> "ƥ" @@ "Ʀ" :> "ʀ" @@ "Ƨ" :> "ƨ"
  @@ "Ʃ" :> "ʃ" @@ "Ƭ" :> "ƭ" @@ "Ʈ" :> "ʈ" @@ "Ư" :> "ư" @@ "Ʊ" :> "ʊ"
  @@ "Ʋ" :> "ʋ" @@ "Ƴ" :> "ƴ" @@ "Ƶ" :> "ƶ" @@ "Ʒ" :> "ʒ" @@ "Ƹ" :> "ƹ"
  @@ "Ƽ" :> "ƽ" @@ "Ǆ" :> "ǆ" @@ "ǅ" :> "ǆ" @@ "Ǉ" :> "ǉ" @@ "ǈ" :> "ǉ"
  @@ "Ǌ" :> "ǌ" @@ "ǋ" :> "ǌ" @@ "Ǎ" :> "ǎ" @@ "Ǐ" :> "ǐ" @@ "Ǒ" :> "ǒ"
  @@ "Ǔ" :> "ǔ" @@ "Ǖ" :> "ǖ" @@ "Ǘ" :> "ǘ" @@ "Ǚ" :> "ǚ" @@ "Ǜ" :> "ǜ"
  @@ "Ǟ" :> "ǟ" @@ "Ǡ" :> "ǡ" @@ "Ǣ" :> "ǣ" @@ "Ǥ" :> "ǥ" @@ "Ǧ" :> "ǧ"
  @@ "Ǩ" :> "ǩ" @@ "Ǫ" :> "ǫ" @@ "Ǭ" :> "ǭ" @@ "Ǯ" :> "ǯ" @@ "Ǳ" :> "ǳ"
  @@ "ǲ" :> "ǳ" @@ "Ǵ" :> "ǵ" @@ "Ƕ" :> "ƕ" @@ "Ƿ" :> "ƿ" @@ "Ǹ" :> "ǹ"
  @@ "Ǻ" :> "ǻ" @@ "Ǽ" :> "ǽ" @@ "Ǿ" :> "ǿ" @@ "U+0200" :> "U+0201" @@ "U+0202" :> "U+0203"
  @@ "U+0204" :> "U+0205" @@ "U+0206" :> "U+0207" @@ "U+0208" :> "U+0209" @@ "U+020A" :> "U+020B" @@ "U+020C" :> "U+020D"
  @@ "U+020E" :> "U+020F" @@ "U+0210" :> "U+0211" @@ "U+0212" :> "U+0213" @@ "U+0214" :> "U+0215" @@ "U+0216" :> "U+0217"
  @@ "U+0218" :> "U+0219" @@ "U+021A" :> "U+021B" @@ "U+021C" :> "U+021D" @@ "U+021E" :> "U+021F" @@ "U+0220" :> "ƞ"
  @@ "U+0222" :> "U+0223" @@ "U+0224" :> "U+0225" @@ "U+0226" :> "U+0227" @@ "U+0228" :> "U+0229" @@ "U+022A" :> "U+022B"
  @@ "U+022C" :> "U+022D" @@ "U+022E" :> "U+022F" @@ "U+0230" :> "U+0231" @@ "U+0232" :> "U+0233" @@ "U+023A" :> "U+2C65"
  @@ "U+023B" :> "U+023C" @@ "U+023D" :> "ƚ" @@ "U+023E" :> "U+2C66" @@ "U+0241" :> "U+0242" @@ "U+0243" :> "ƀ"
  @@ "U+0244" :> "ʉ" @@ "U+0245" :> "ʌ" @@ "U+0246" :> "U+0247" @@ "U+0248" :> "U+0249" @@ "U+024A" :> "U+024B"
  @@ "U+024C" :> "U+024D" @@ "U+024E" :> "U+024F"

\* lower-case mappings of the block Greek and Coptic (U+0370 to U+03FF)
LowerGreekAndCoptic ==
     "U+0370" :> "U+0371" @@ "U+0372" :> "U+0373" @@ "U+0376" :> "U+0377" @@ "U+037F" :> "ϳ" @@ "Ά" :> "ά"
  @@ "Έ" :> "έ" @@ "Ή" :> "ή" @@ "Ί" :> "ί" @@ "Ό" :> "ό" @@ "Ύ" :> "ύ"
  @@ "Ώ" :> "ώ" @@ "Α" :> "α" @@ "Β" :> "β" @@ "Γ" :> "γ" @@ "Δ" :> "δ"
  @@ "Ε" :> "ε" @@ "Ζ" :> "ζ" @@ "Η" :> "η" @@ "Θ" :> "θ" @@ "Ι" :> "ι"
  @@ "Κ" :> "κ" @@ "Λ" :> "λ" @@ "Μ" :> "μ" @@ "Ν" :> "ν" @@ "Ξ" :> "ξ"
  @@ "Ο" :> "ο" @@ "Π" :> "π" @@ "Ρ" :> "ρ" @@ "Σ" :> "σ" @@ "Τ" :> "τ"
  @@ "Υ" :> "υ" @@ "Φ" :> "φ" @@ "Χ" :> "χ" @@ "Ψ" :> "ψ" @@ "Ω" :> "ω"
  @@ "Ϊ" :> "ϊ" @@ "Ϋ" :> "ϋ" @@ "Ϗ" :> "ϗ" @@ "Ϙ" :> "ϙ" @@ "Ϛ" :> "ϛ"
  @@ "Ϝ" :> "ϝ" @@ "Ϟ" :> "ϟ" @@ "Ϡ" :> "ϡ" @@ "Ϣ" :> "ϣ" @@ "Ϥ" :> "ϥ"
  @@ "Ϧ" :> "ϧ" @@ "Ϩ" :> "ϩ" @@ "Ϫ" :> "ϫ" @@ "Ϭ" :> "ϭ" @@ "Ϯ" :> "ϯ"
  @@ "ϴ" :> "θ" @@ "Ϸ" :> "ϸ" @@ "Ϲ" :> "ϲ" @@ "Ϻ" :> "ϻ" @@ "Ͻ" :> "U+037B"
  @@ "Ͼ" :> "U+037C" @@ "Ͽ" :> "U+037D"

\* lower-case mappings of the block Cyrillic (U+0400 to U+04FF)
LowerCyrillic ==
     "U+0400" :> "U+0450" @@ "U+0401" :> "U+0451" @@ "U+0402" :> "U+0452" @@ "U+0403" :> "U+0453" @@ "U+0404" :> "U+0454"
  @@ "U+0405" :> "U+0455" @@ "U+0406" :> "U+0456" @@ "U+0407" :> "U+0457" @@ "U+0408" :> "U+0458" @@ "U+0409" :> "U+0459"
  @@ "U+040A" :> "U+045A" @@ "U+040B" :> "U+045B" @@ "U+040C" :> "U+045C" @@ "U+040D" :> "U+045D" @@ "U+040E" :> "U+045E"
  @@ "U+040F" :> "U+045F" @@ "U+0410" :> "U+0430" @@ "U+0411" :> "U+0431" @@ "U+0412" :> "U+0432" @@ "U+0413" :> "U+0433"
  @@ "U+0414" :> "U+0434" @@ "U+0415" :> "U+0435" @@ "U+0416" :> "U+0436" @@ "U+0417" :> "U+0437" @@ "U+0418" :> "U+0438"
  @@ "U+0419" :> "U+0439" @@ "U+041A" :> "U+043A" @@ "U+041B" :> "U+043B" @@ "U+041C" :> "U+043C" @@ "U+041D" :> "U+043D"
  @@ "U+041E" :> "U+043E" @@ "U+041F" :> "U+043F" @@ "U+0420" :> "U+0440" @@ "U+0421" :> "U+0441" @@ "U+0422" :> "U+0442"
  @@ "U+0423" :> "U+0443" @@ "U+0424" :> "U+0444" @@ "U+0425" :> "U+0445" @@ "U+0426" :> "U+0446" @@ "U+0427" :> "U+0447"
  @@ "U+0428" :> "U+0448" @@ "U+0429" :> "U+0449" @@ "U+042A" :> "U+044A" @@ "U+042B" :> "U+044B" @@ "U+042C" :> "U+044C"
  @@ "U+042D" :> "U+044D" @@ "U+042E" :> "U+044E" @@ "U+042F" :> "U+044F" @@ "U+0460" :> "U+0461" @@ "U+0462" :> "U+0463"
  @@ "U+0464" :> "U+0465" @@ "U+0466" :> "U+0467" @@ "U+0468" :> "U+0469" @@ "U+046A" :> "U+046B" @@ "U+046C" :> "U+046D"
  @@ "U+046E" :> "U+046F" @@ "U+0470" :> "U+0471" @@ "U+0472" :> "U+0473" @@ "U+0474" :> "U+0475" @@ "U+0476" :> "U+0477"
  @@ "U+0478" :> "U+0479" @@ "U+047A" :> "U+047B" @@ "U+047C" :> "U+047D" @@ "U+047E" :> "U+047F" @@ "Ҁ" :> "ҁ"
  @@ "Ҋ" :> "ҋ" @@ "Ҍ" :> "ҍ" @@ "Ҏ" :> "ҏ" @@ "Ґ" :> "ґ" @@ "Ғ" :> "ғ"
  @@ "Ҕ" :> "ҕ" @@ "Җ" :> "җ" @@ "Ҙ" :> "ҙ" @@ "Қ" :> "қ" @@ "Ҝ" :> "ҝ"
  @@ "Ҟ" :> "ҟ" @@ "Ҡ" :> "ҡ" @@ "Ң" :> "ң" @@ "Ҥ" :> "ҥ" @@ "Ҧ" :> "ҧ"
  @@ "Ҩ" :> "ҩ" @@ "Ҫ" :> "ҫ" @@ "Ҭ" :> "ҭ" @@ "Ү" :> "ү" @@ "Ұ" :> "ұ"
  @@ "Ҳ" :> "ҳ" @@ "Ҵ" :> "ҵ" @@ "Ҷ" :> "ҷ" @@ "Ҹ" :> "ҹ" @@ "Һ" :> "һ"
  @@ "Ҽ" :> "ҽ" @@ "Ҿ" :> "ҿ" @@ "Ӏ" :> "ӏ" @@ "Ӂ" :> "ӂ" @@ "Ӄ" :> "ӄ"
  @@ "Ӆ" :> "ӆ" @@ "Ӈ" :> "ӈ" @@ "Ӊ" :> "ӊ" @@ "Ӌ" :> "ӌ" @@ "Ӎ" :> "ӎ"
  @@ "Ӑ" :> "ӑ" @@ "Ӓ" :> "ӓ" @@ "Ӕ" :> "ӕ" @@ "Ӗ" :> "ӗ" @@ "Ә" :> "ә"
  @@ "Ӛ" :> "ӛ" @@ "Ӝ" :> "ӝ" @@ "Ӟ" :> "ӟ" @@ "Ӡ" :> "ӡ" @@ "Ӣ" :> "ӣ"
  @@ "Ӥ" :> "ӥ" @@ "Ӧ" :> "ӧ" @@ "Ө" :> "ө" @@ "Ӫ" :> "ӫ" @@ "Ӭ" :> "ӭ"
  @@ "Ӯ" :> "ӯ" @@ "Ӱ" :> "ӱ" @@ "Ӳ" :> "ӳ" @@ "Ӵ" :> "ӵ" @@ "Ӷ" :> "ӷ"
  @@ "Ӹ" :> "ӹ" @@ "Ӻ" :> "ӻ" @@ "Ӽ" :> "ӽ" @@ "Ӿ" :> "ӿ"

\* lower-case mappings of the block Cyrillic Supplement (U+0500 to U+052F)
LowerCyrillicSupplement ==
     "U+0500" :> "U+0501" @@ "U+0502" :> "U+0503" @@ "U+0504" :> "U+0505" @@ "U+0506" :> "U+0507" @@ "U+0508" :> "U+0509"
  @@ "U+050A" :> "U+050B" @@ "U+050C" :> "U+050D" @@ "U+050E" :> "U+050F" @@ "U+0510" :> "U+0511" @@ "U+0512" :> "U+0513"
  @@ "U+0514" :> "U+0515" @@ "U+0516" :> "U+0517" @@ "U+0518" :> "U+0519" @@ "U+051A" :> "U+051B" @@ "U+051C" :> "U+051D"
  @@ "U+051E" :> "U+051F" @@ "U+0520" :> "U+0521" @@ "U+0522" :> "U+0523" @@ "U+0524" :> "U+0525" @@ "U+0526" :> "U+0527"
  @@ "U+0528" :> "U+0529" @@ "U+052A" :> "U+052B" @@ "U+052C" :> "U+052D" @@ "U+052E" :> "U+052F"

\* lower-case mappings of the block Armenian (U+0530 to U+058F)
LowerArmenian ==
     "U+0531" :> "U+0561" @@ "U+0532" :> "U+0562" @@ "U+0533" :> "U+0563" @@ "U+0534" :> "U+0564" @@ "U+0535" :> "U+0565"
  @@ "U+0536" :> "U+0566" @@ "U+0537" :> "U+0567" @@ "U+0538" :> "U+0568" @@ "U+0539" :> "U+0569" @@ "U+053A" :> "U+056A"
  @@ "U+053B" :> "U+056B" @@ "U+053C" :> "U+056C" @@ "U+053D" :> "U+056D" @@ "U+053E" :> "U+056E" @@ "U+053F" :> "U+056F"
  @@ "U+0540" :> "U+0570" @@ "U+0541" :> "U+0571" @@ "U+0542" :> "U+0572" @@ "U+0543" :> "U+0573" @@ "U+0544" :> "U+0574"
  @@ "U+0545" :> "U+0575" @@ "U+0546" :> "U+0576" @@ "U+0547" :> "U+0577" @@ "U+0548" :> "U+0578" @@ "U+0549" :> "U+0579"
  @@ "U+054A" :> "U+057A" @@ "U+054B" :> "U+057B" @@ "U+054C" :> "U+057C" @@ "U+054D" :> "U+057D" @@ "U+054E" :> "U+057E"
  @@ "U+054F" :> "U+057F" @@ "U+0550" :> "ր" @@ "U+0551" :> "ց" @@ "U+0552" :> "ւ" @@ "U+0553" :> "փ"
  @@ "U+0554" :> "ք" @@ "U+0555" :> "օ" @@ "U+0556" :> "ֆ"

\* lower-case mappings of the block Georgian (U+10A0 to U+10FF)
LowerGeorgian ==
     "Ⴀ" :> "U+2D00" @@ "Ⴁ" :> "U+2D01" @@ "Ⴂ" :> "U+2D02" @@ "Ⴃ" :> "U+2D03" @@ "Ⴄ" :> "U+2D04"
  @@ "Ⴅ" :> "U+2D05" @@ "Ⴆ" :> "U+2D06" @@ "Ⴇ" :> "U+2D07" @@ "Ⴈ" :> "U+2D08" @@ "Ⴉ" :> "U+2D09"
  @@ "Ⴊ" :> "U+2D0A" @@ "Ⴋ" :> "U+2D0B" @@ "Ⴌ" :> "U+2D0C" @@ "Ⴍ" :> "U+2D0D" @@ "Ⴎ" :> "U+2D0E"
  @@ "Ⴏ" :> "U+2D0F" @@ "Ⴐ" :> "U+2D10" @@ "Ⴑ" :> "U+2D11" @@ "Ⴒ" :> "U+2D12" @@ "Ⴓ" :> "U+2D13"
  @@ "Ⴔ" :> "U+2D14" @@ "Ⴕ" :> "U+2D15" @@ "Ⴖ" :> "U+2D16" @@ "Ⴗ" :> "U+2D17" @@ "Ⴘ" :> "U+2D18"
  @@ "Ⴙ" :> "U+2D19" @@ "Ⴚ" :> "U+2D1A" @@ "Ⴛ" :> "U+2D1B" @@ "Ⴜ" :> "U+2D1C" @@ "Ⴝ" :> "U+2D1D"
  @@ "Ⴞ" :> "U+2D1E" @@ "Ⴟ" :> "U+2D1F" @@ "Ⴠ" :> "U+2D20" @@ "Ⴡ" :> "U+2D21" @@ "Ⴢ" :> "U+2D22"
  @@ "Ⴣ" :> "U+2D23" @@ "Ⴤ" :> "U+2D24" @@ "Ⴥ" :> "U+2D25" @@ "Ⴧ" :> "U+2D27" @@ "Ⴭ" :> "U+2D2D"

\* lower-case mappings of the block Cherokee (U+13A0 to U+13FF)
LowerCherokee ==
     "Ꭰ" :> "U+AB70" @@ "Ꭱ" :> "U+AB71" @@ "Ꭲ" :> "U+AB72" @@ "Ꭳ" :> "U+AB73" @@ "Ꭴ" :> "U+AB74"
  @@ "Ꭵ" :> "U+AB75" @@ "Ꭶ" :> "U+AB76" @@ "Ꭷ" :> "U+AB77" @@ "Ꭸ" :> "U+AB78" @@ "Ꭹ" :> "U+AB79"
  @@ "Ꭺ" :> "U+AB7A" @@ "Ꭻ" :> "U+AB7B" @@ "Ꭼ" :> "U+AB7C" @@ "Ꭽ" :> "U+AB7D" @@ "Ꭾ" :> "U+AB7E"
  @@ "Ꭿ" :> "U+AB7F" @@ "Ꮀ" :> "ꮀ" @@ "Ꮁ" :> "ꮁ" @@ "Ꮂ" :> "ꮂ" @@ "Ꮃ" :> "ꮃ"
  @@ "Ꮄ" :> "ꮄ" @@ "Ꮅ" :> "ꮅ" @@ "Ꮆ" :> "ꮆ" @@ "Ꮇ" :> "ꮇ" @@ "Ꮈ" :> "ꮈ"
  @@ "Ꮉ" :> "ꮉ" @@ "Ꮊ" :> "ꮊ" @@ "Ꮋ" :> "ꮋ" @@ "Ꮌ" :> "ꮌ" @@ "Ꮍ" :> "ꮍ"
  @@ "Ꮎ" :> "ꮎ" @@ "Ꮏ" :> "ꮏ" @@ "Ꮐ" :> "ꮐ" @@ "Ꮑ" :> "ꮑ" @@ "Ꮒ" :> "ꮒ"
  @@ "Ꮓ" :> "ꮓ" @@ "Ꮔ" :> "ꮔ" @@ "Ꮕ" :> "ꮕ" @@ "Ꮖ" :> "ꮖ" @@ "Ꮗ" :> "ꮗ"
  @@ "Ꮘ" :> "ꮘ" @@ "Ꮙ" :> "ꮙ" @@ "Ꮚ" :> "ꮚ" @@ "Ꮛ" :> "ꮛ" @@ "Ꮜ" :> "ꮜ"
  @@ "Ꮝ" :> "ꮝ" @@ "Ꮞ" :> "ꮞ" @@ "Ꮟ" :> "ꮟ" @@ "Ꮠ" :> "ꮠ" @@ "Ꮡ" :> "ꮡ"
  @@ "Ꮢ" :> "ꮢ" @@ "Ꮣ" :> "ꮣ" @@ "Ꮤ" :> "ꮤ" @@ "Ꮥ" :> "ꮥ" @@ "Ꮦ" :> "ꮦ"
  @@ "Ꮧ" :> "ꮧ" @@ "Ꮨ" :> "ꮨ" @@ "Ꮩ" :> "ꮩ" @@ "Ꮪ" :> "ꮪ" @@ "Ꮫ" :> "ꮫ"
  @@ "Ꮬ" :> "ꮬ" @@ "Ꮭ" :> "ꮭ" @@ "Ꮮ" :> "ꮮ" @@ "Ꮯ" :> "ꮯ" @@ "Ꮰ" :> "ꮰ"
  @@ "Ꮱ" :> "ꮱ" @@ "Ꮲ" :> "ꮲ" @@ "Ꮳ" :> "ꮳ" @@ "Ꮴ" :> "ꮴ" @@ "Ꮵ" :> "ꮵ"
  @@ "Ꮶ" :> "ꮶ" @@ "Ꮷ" :> "ꮷ" @@ "Ꮸ" :> "ꮸ" @@ "Ꮹ" :> "ꮹ" @@ "Ꮺ" :> "ꮺ"
  @@ "Ꮻ" :> "ꮻ" @@ "Ꮼ" :> "ꮼ" @@ "Ꮽ" :> "ꮽ" @@ "Ꮾ" :> "ꮾ" @@ "Ꮿ" :> "ꮿ"
  @@ "Ᏸ" :> "ᏸ" @@ "Ᏹ" :> "ᏹ" @@ "Ᏺ" :> "ᏺ" @@ "Ᏻ" :> "ᏻ" @@ "Ᏼ" :> "ᏼ"
  @@ "Ᏽ" :> "ᏽ"

\* lower-case mappings of the block Cyrillic Extended-C (U+1C80 to U+1C8F)
LowerCyrillicExtendedC ==
     "Ᲊ" :> "ᲊ"

\* lower-case mappings of the block Georgian Extended (U+1C90 to U+1CBF)
LowerGeorgianExtended ==
     "Ა" :> "ა" @@ "Ბ" :> "ბ" @@ "Გ" :> "გ" @@ "Დ" :> "დ" @@ "Ე" :> "ე"
  @@ "Ვ" :> "ვ" @@ "Ზ" :> "ზ" @@ "Თ" :> "თ" @@ "Ი" :> "ი" @@ "Კ" :> "კ"
  @@ "Ლ" :> "ლ" @@ "Მ" :> "მ" @@ "Ნ" :> "ნ" @@ "Ო" :> "ო" @@ "Პ" :> "პ"
  @@ "Ჟ" :> "ჟ" @@ "Რ" :> "რ" @@ "Ს" :> "ს" @@ "Ტ" :> "ტ" @@ "Უ" :> "უ"
  @@ "Ფ" :> "ფ" @@ "Ქ" :> "ქ" @@ "Ღ" :> "ღ" @@ "Ყ" :> "ყ" @@ "Შ" :> "შ"
  @@ "Ჩ" :> "ჩ" @@ "Ც" :> "ც" @@ "Ძ" :> "ძ" @@ "Წ" :> "წ" @@ "Ჭ" :> "ჭ"
  @@ "Ხ" :> "ხ" @@ "Ჯ" :> "ჯ" @@ "Ჰ" :> "ჰ" @@ "Ჱ" :> "ჱ" @@ "Ჲ" :> "ჲ"
  @@ "Ჳ" :> "ჳ" @@ "Ჴ" :> "ჴ" @@ "Ჵ" :> "ჵ" @@ "Ჶ" :> "ჶ" @@ "Ჷ" :> "ჷ"
  @@ "Ჸ" :> "ჸ" @@ "Ჹ" :> "ჹ" @@ "Ჺ" :> "ჺ" @@ "Ჽ" :> "ჽ" @@ "Ჾ" :> "ჾ"
  @@ "Ჿ" :> "ჿ"

\* lower-case mappings of the block Latin Extended Additional (U+1E00 to U+1EFF)
LowerLatinExtendedAdditional ==
     "U+1E00" :> "U+1E01" @@ "U+1E02" :> "U+1E03" @@ "U+1E04" :> "U+1E05" @@ "U+1E06" :> "U+1E07" @@ "U+1E08" :> "U+1E09"
  @@ "U+1E0A" :> "U+1E0B" @@ "U+1E0C" :> "U+1E0D" @@ "U+1E0E" :> "U+1E0F" @@ "U+1E10" :> "U+1E11" @@ "U+1E12" :> "U+1E13"
  @@ "U+1E14" :> "U+1E15" @@ "U+1E16" :> "U+1E17" @@ "U+1E18" :> "U+1E19" @@ "U+1E1A" :> "U+1E1B" @@ "U+1E1C" :> "U+1E1D"
  @@ "U+1E1E" :> "U+1E1F" @@ "U+1E20" :> "U+1E21" @@ "U+1E22" :> "U+1E23" @@ "U+1E24" :> "U+1E25" @@ "U+1E26" :> "U+1E27"
  @@ "U+1E28" :> "U+1E29" @@ "U+1E2A" :> "U+1E2B" @@ "U+1E2C" :> "U+1E2D" @@ "U+1E2E" :> "U+1E2F" @@ "U+1E30" :> "U+1E31"
  @@ "U+1E32" :> "U+1E33" @@ "U+1E34" :> "U+1E35" @@ "U+1E36" :> "U+1E37" @@ "U+1E38" :> "U+1E39" @@ "U+1E3A" :> "U+1E3B"
  @@ "U+1E3C" :> "U+1E3D" @@ "U+1E3E" :> "U+1E3F" @@ "U+1E40" :> "U+1E41" @@ "U+1E42" :> "U+1E43" @@ "U+1E44" :> "U+1E45"
  @@ "U+1E46" :> "U+1E47" @@ "U+1E48" :> "U+1E49" @@ "U+1E4A" :> "U+1E4B" @@ "U+1E4C" :> "U+1E4D" @@ "U+1E4E" :> "U+1E4F"
  @@ "U+1E50" :> "U+1E51" @@ "U+1E52" :> "U+1E53" @@ "U+1E54" :> "U+1E55" @@ "U+1E56" :> "U+1E57" @@ "U+1E58" :> "U+1E59"
  @@ "U+1E5A" :> "U+1E5B" @@ "U+1E5C" :> "U+1E5D" @@ "U+1E5E" :> "U+1E5F" @@ "U+1E60" :> "U+1E61" @@ "U+1E62" :> "U+1E63"
  @@ "U+1E64" :> "U+1E65" @@ "U+1E66" :> "U+1E67" @@ "U+1E68" :> "U+1E69" @@ "U+1E6A" :> "U+1E6B" @@ "U+1E6C" :> "U+1E6D"
  @@ "U+1E6E" :> "U+1E6F" @@ "U+1E70" :> "U+1E71" @@ "U+1E72" :> "U+1E73" @@ "U+1E74" :> "U+1E75" @@ "U+1E76" :> "U+1E77"
  @@ "U+1E78" :> "U+1E79" @@ "U+1E7A" :> "U+1E7B" @@ "U+1E7C" :> "U+1E7D" @@ "U+1E7E" :> "U+1E7F" @@ "Ẁ" :> "ẁ"
  @@ "Ẃ" :> "ẃ" @@ "Ẅ" :> "ẅ" @@ "Ẇ" :> "ẇ" @@ "Ẉ" :> "ẉ" @@ "Ẋ" :> "ẋ"
  @@ "Ẍ" :> "ẍ" @@ "Ẏ" :> "ẏ" @@ "Ẑ" :> "ẑ" @@ "Ẓ" :> "ẓ" @@ "Ẕ" :> "ẕ"
  @@ "ẞ" :> "ß" @@ "Ạ" :> "ạ" @@ "Ả" :> "ả" @@ "Ấ" :> "ấ" @@ "Ầ" :> "ầ"
  @@ "Ẩ" :> "ẩ" @@ "Ẫ" :> "ẫ" @@ "Ậ" :> "ậ" @@ "Ắ" :> "ắ" @@ "Ằ" :> "ằ"
  @@ "Ẳ" :> "ẳ" @@ "Ẵ" :> "ẵ" @@ "Ặ" :> "ặ" @@ "Ẹ" :> "ẹ" @@ "Ẻ" :> "ẻ"
  @@ "Ẽ" :> "ẽ" @@ "Ế" :> "ế" @@ "Ề" :> "ề" @@ "Ể" :> "ể" @@ "Ễ" :> "ễ"
  @@ "Ệ" :> "ệ" @@ "Ỉ" :> "ỉ" @@ "Ị" :> "ị" @@ "Ọ" :> "ọ" @@ "Ỏ" :> "ỏ"
  @@ "Ố" :> "ố" @@ "Ồ" :> "ồ" @@ "Ổ" :> "ổ" @@ "Ỗ" :> "ỗ" @@ "Ộ" :> "ộ"
  @@ "Ớ" :> "ớ" @@ "Ờ" :> "ờ" @@ "Ở" :> "ở" @@ "Ỡ" :> "ỡ" @@ "Ợ" :> "ợ"
  @@ "Ụ" :> "ụ" @@ "Ủ" :> "ủ" @@ "Ứ" :> "ứ" @@ "Ừ" :> "ừ" @@ "Ử" :> "ử"
  @@ "Ữ" :> "ữ" @@ "Ự" :> "ự" @@ "Ỳ" :> "ỳ" @@ "Ỵ" :> "ỵ" @@ "Ỷ" :> "ỷ"
  @@ "Ỹ" :> "ỹ" @@ "Ỻ" :> "ỻ" @@ "Ỽ" :> "ỽ" @@ "Ỿ" :> "ỿ"

\* lower-case mappings of the block Greek Extended (U+1F00 to U+1FFF)
LowerGreekExtended ==
     "U+1F08" :> "U+1F00" @@ "U+1F09" :> "U+1F01" @@ "U+1F0A" :> "U+1F02" @@ "U+1F0B" :> "U+1F03" @@ "U+1F0C" :> "U+1F04"
  @@ "U+1F0D" :> "U+1F05" @@ "U+1F0E" :> "U+1F06" @@ "U+1F0F" :> "U+1F07" @@ "U+1F18" :> "U+1F10" @@ "U+1F19" :> "U+1F11"
  @@ "U+1F1A" :> "U+1F12" @@ "U+1F1B" :> "U+1F13" @@ "U+1F1C" :> "U+1F14" @@ "U+1F1D" :> "U+1F15" @@ "U+1F28" :> "U+1F20"
  @@ "U+1F29" :> "U+1F21" @@ "U+1F2A" :> "U+1F22" @@ "U+1F2B" :> "U+1F23" @@ "U+1F2C" :> "U+1F24" @@ "U+1F2D" :> "U+1F25"
  @@ "U+1F2E" :> "U+1F26" @@ "U+1F2F" :> "U+1F27" @@ "U+1F38" :> "U+1F30" @@ "U+1F39" :> "U+1F31" @@ "U+1F3A" :> "U+1F32"
  @@ "U+1F3B" :> "U+1F33" @@ "U+1F3C" :> "U+1F34" @@ "U+1F3D" :> "U+1F35" @@ "U+1F3E" :> "U+1F36" @@ "U+1F3F" :> "U+1F37"
  @@ "U+1F48" :> "U+1F40" @@ "U+1F49" :> "U+1F41" @@ "U+1F4A" :> "U+1F42" @@ "U+1F4B" :> "U+1F43" @@ "U+1F4C" :> "U+1F44"
  @@ "U+1F4D" :> "U+1F45" @@ "U+1F59" :> "U+1F51" @@ "U+1F5B" :> "U+1F53" @@ "U+1F5D" :> "U+1F55" @@ "U+1F5F" :> "U+1F57"
  @@ "U+1F68" :> "U+1F60" @@ "U+1F69" :> "U+1F61" @@ "U+1F6A" :> "U+1F62" @@ "U+1F6B" :> "U+1F63" @@ "U+1F6C" :> "U+1F64"
  @@ "U+1F6D" :> "U+1F65" @@ "U+1F6E" :> "U+1F66" @@ "U+1F6F" :> "U+1F67" @@ "ᾈ" :> "ᾀ" @@ "ᾉ" :> "ᾁ"
  @@ "ᾊ" :> "ᾂ" @@ "ᾋ" :> "ᾃ" @@ "ᾌ" :> "ᾄ" @@ "ᾍ" :> "ᾅ" @@ "ᾎ" :> "ᾆ"
  @@ "ᾏ" :> "ᾇ" @@ "ᾘ" :> "ᾐ" @@ "ᾙ" :> "ᾑ" @@ "ᾚ" :> "ᾒ" @@ "ᾛ" :> "ᾓ"
  @@ "ᾜ" :> "ᾔ" @@ "ᾝ" :> "ᾕ" @@ "ᾞ" :> "ᾖ" @@ "ᾟ" :> "ᾗ" @@ "ᾨ" :> "ᾠ"
  @@ "ᾩ" :> "ᾡ" @@ "ᾪ" :> "ᾢ" @@ "ᾫ" :> "ᾣ" @@ "ᾬ" :> "ᾤ" @@ "ᾭ" :> "ᾥ"
  @@ "ᾮ" :> "ᾦ" @@ "ᾯ" :> "ᾧ" @@ "Ᾰ" :> "ᾰ" @@ "Ᾱ" :> "ᾱ" @@ "Ὰ" :> "U+1F70"
  @@ "Ά" :> "U+1F71" @@ "ᾼ" :> "ᾳ" @@ "Ὲ" :> "U+1F72" @@ "Έ" :> "U+1F73" @@ "Ὴ" :> "U+1F74"
  @@ "Ή" :> "U+1F75" @@ "ῌ" :> "ῃ" @@ "Ῐ" :> "ῐ" @@ "Ῑ" :> "ῑ" @@ "Ὶ" :> "U+1F76"
  @@ "Ί" :> "U+1F77" @@ "Ῠ" :> "ῠ" @@ "Ῡ" :> "ῡ" @@ "Ὺ" :> "U+1F7A" @@ "Ύ" :> "U+1F7B"
  @@ "Ῥ" :> "ῥ" @@ "Ὸ" :> "U+1F78" @@ "Ό" :> "U+1F79" @@ "Ὼ" :> "U+1F7C" @@ "Ώ" :> "U+1F7D"
  @@ "ῼ" :> "ῳ"

\* lower-case mappings of the block Letterlike Symbols (U+2100 to U+214F)
LowerLetterlikeSymbols ==
     "U+2126" :> "ω" @@ "U+212A" :> "k" @@ "U+212B" :> "å" @@ "U+2132" :> "U+214E"

\* lower-case mappings of the block Number Forms (U+2150 to U+218F)
LowerNumberForms ==
     "U+2160" :> "U+2170" @@ "U+2161" :> "U+2171" @@ "U+2162" :> "U+2172" @@ "U+2163" :> "U+2173" @@ "U+2164" :> "U+2174"
  @@ "U+2165" :> "U+2175" @@ "U+2166" :> "U+2176" @@ "U+2167" :> "U+2177" @@ "U+2168" :> "U+2178" @@ "U+2169" :> "U+2179"
  @@ "U+216A" :> "U+217A" @@ "U+216B" :> "U+217B" @@ "U+216C" :> "U+217C" @@ "U+216D" :> "U+217D" @@ "U+216E" :> "U+217E"
  @@ "U+216F" :> "U+217F" @@ "Ↄ" :> "ↄ"

\* lower-case mappings of the block Enclosed Alphanumerics (U+2460 to U+24FF)
LowerEnclosedAlphanumerics ==
     "Ⓐ" :> "ⓐ" @@ "Ⓑ" :> "ⓑ" @@ "Ⓒ" :> "ⓒ" @@ "Ⓓ" :> "ⓓ" @@ "Ⓔ" :> "ⓔ"
  @@ "Ⓕ" :> "ⓕ" @@ "Ⓖ" :> "ⓖ" @@ "Ⓗ" :> "ⓗ" @@ "Ⓘ" :> "ⓘ" @@ "Ⓙ" :> "ⓙ"
  @@ "Ⓚ" :> "ⓚ" @@ "Ⓛ" :> "ⓛ" @@ "Ⓜ" :> "ⓜ" @@ "Ⓝ" :> "ⓝ" @@ "Ⓞ" :> "ⓞ"
  @@ "Ⓟ" :> "ⓟ" @@ "Ⓠ" :> "ⓠ" @@ "Ⓡ" :> "ⓡ" @@ "Ⓢ" :> "ⓢ" @@ "Ⓣ" :> "ⓣ"
  @@ "Ⓤ" :> "ⓤ" @@ "Ⓥ" :> "ⓥ" @@ "Ⓦ" :> "ⓦ" @@ "Ⓧ" :> "ⓧ" @@ "Ⓨ" :> "ⓨ"
  @@ "Ⓩ" :> "ⓩ"

\* lower-case mappings of the block Glagolitic (U+2C00 to U+2C5F)
LowerGlagolitic ==
     "U+2C00" :> "U+2C30" @@ "U+2C01" :> "U+2C31" @@ "U+2C02" :> "U+2C32" @@ "U+2C03" :> "U+2C33" @@ "U+2C04" :> "U+2C34"
  @@ "U+2C05" :> "U+2C35" @@ "U+2C06" :> "U+2C36" @@ "U+2C07" :> "U+2C37" @@ "U+2C08" :> "U+2C38" @@ "U+2C09" :> "U+2C39"
  @@ "U+2C0A" :> "U+2C3A" @@ "U+2C0B" :> "U+2C3B" @@ "U+2C0C" :> "U+2C3C" @@ "U+2C0D" :> "U+2C3D" @@ "U+2C0E" :> "U+2C3E"
  @@ "U+2C0F" :> "U+2C3F" @@ "U+2C10" :> "U+2C40" @@ "U+2C11" :> "U+2C41" @@ "U+2C12" :> "U+2C42" @@ "U+2C13" :> "U+2C43"
  @@ "U+2C14" :> "U+2C44" @@ "U+2C15" :> "U+2C45" @@ "U+2C16" :> "U+2C46" @@ "U+2C17" :> "U+2C47" @@ "U+2C18" :> "U+2C48"
  @@ "U+2C19" :> "U+2C49" @@ "U+2C1A" :> "U+2C4A" @@ "U+2C1B" :> "U+2C4B" @@ "U+2C1C" :> "U+2C4C" @@ "U+2C1D" :> "U+2C4D"
  @@ "U+2C1E" :> "U+2C4E" @@ "U+2C1F" :> "U+2C4F" @@ "U+2C20" :> "U+2C50" @@ "U+2C21" :> "U+2C51" @@ "U+2C22" :> "U+2C52"
  @@ "U+2C23" :> "U+2C53" @@ "U+2C24" :> "U+2C54" @@ "U+2C25" :> "U+2C55" @@ "U+2C26" :> "U+2C56" @@ "U+2C27" :> "U+2C57"
  @@ "U+2C28" :> "U+2C58" @@ "U+2C29" :> "U+2C59" @@ "U+2C2A" :> "U+2C5A" @@ "U+2C2B" :> "U+2C5B" @@ "U+2C2C" :> "U+2C5C"
  @@ "U+2C2D" :> "U+2C5D" @@ "U+2C2E" :> "U+2C5E" @@ "U+2C2F" :> "U+2C5F"

\* lower-case mappings of the block Latin Extended-C (U+2C60 to U+2C7F)
LowerLatinExtendedC ==
     "U+2C60" :> "U+2C61" @@ "U+2C62" :> "U+026B" @@ "U+2C63" :> "U+1D7D" @@ "U+2C64" :> "U+027D" @@ "U+2C67" :> "U+2C68"
  @@ "U+2C69" :> "U+2C6A" @@ "U+2C6B" :> "U+2C6C" @@ "U+2C6D" :> "U+0251" @@ "U+2C6E" :> "U+0271" @@ "U+2C6F" :> "U+0250"
  @@ "U+2C70" :> "U+0252" @@ "U+2C72" :> "U+2C73" @@ "U+2C75" :> "U+2C76" @@ "U+2C7E" :> "U+023F" @@ "U+2C7F" :> "U+0240"

\* lower-case mappings of the block Coptic (U+2C80 to U+2CFF)
LowerCoptic ==
     "Ⲁ" :> "ⲁ" @@ "Ⲃ" :> "ⲃ" @@ "Ⲅ" :> "ⲅ" @@ "Ⲇ" :> "ⲇ" @@ "Ⲉ" :> "ⲉ"
  @@ "Ⲋ" :> "ⲋ" @@ "Ⲍ" :> "ⲍ" @@ "Ⲏ" :> "ⲏ" @@ "Ⲑ" :> "ⲑ" @@ "Ⲓ" :> "ⲓ"
  @@ "Ⲕ" :> "ⲕ" @@ "Ⲗ" :> "ⲗ" @@ "Ⲙ" :> "ⲙ" @@ "Ⲛ" :> "ⲛ" @@ "Ⲝ" :> "ⲝ"
  @@ "Ⲟ" :> "ⲟ" @@ "Ⲡ" :> "ⲡ" @@ "Ⲣ" :> "ⲣ" @@ "Ⲥ" :> "ⲥ" @@ "Ⲧ" :> "ⲧ"
  @@ "Ⲩ" :> "ⲩ" @@ "Ⲫ" :> "ⲫ" @@ "Ⲭ" :> "ⲭ" @@ "Ⲯ" :> "ⲯ" @@ "Ⲱ" :> "ⲱ"
  @@ "Ⲳ" :> "ⲳ" @@ "Ⲵ" :> "ⲵ" @@ "Ⲷ" :> "ⲷ" @@ "Ⲹ" :> "ⲹ" @@ "Ⲻ" :> "ⲻ"
  @@ "Ⲽ" :> "ⲽ" @@ "Ⲿ" :> "ⲿ" @@ "Ⳁ" :> "ⳁ" @@ "Ⳃ" :> "ⳃ" @@ "Ⳅ" :> "ⳅ"
  @@ "Ⳇ" :> "ⳇ" @@ "Ⳉ" :> "ⳉ" @@ "Ⳋ" :> "ⳋ" @@ "Ⳍ" :> "ⳍ" @@ "Ⳏ" :> "ⳏ"
  @@ "Ⳑ" :> "ⳑ" @@ "Ⳓ" :> "ⳓ" @@ "Ⳕ" :> "ⳕ" @@ "Ⳗ" :> "ⳗ" @@ "Ⳙ" :> "ⳙ"
  @@ "Ⳛ" :> "ⳛ" @@ "Ⳝ" :> "ⳝ" @@ "Ⳟ" :> "ⳟ" @@ "Ⳡ" :> "ⳡ" @@ "Ⳣ" :> "ⳣ"
  @@ "Ⳬ" :> "ⳬ" @@ "Ⳮ" :> "ⳮ" @@ "Ⳳ" :> "ⳳ"

\* lower-case mappings of the block Cyrillic Extended-B (U+A640 to U+A69F)
LowerCyrillicExtendedB ==
     "U+A640" :> "U+A641" @@ "U+A642" :> "U+A643" @@ "U+A644" :> "U+A645" @@ "U+A646" :> "U+A647" @@ "U+A648" :> "U+A649"
  @@ "U+A64A" :> "U+A64B" @@ "U+A64C" :> "U+A64D" @@ "U+A64E" :> "U+A64F" @@ "U+A650" :> "U+A651" @@ "U+A652" :> "U+A653"
  @@ "U+A654" :> "U+A655" @@ "U+A656" :> "U+A657" @@ "U+A658" :> "U+A659" @@ "U+A65A" :> "U+A65B" @@ "U+A65C" :> "U+A65D"
  @@ "U+A65E" :> "U+A65F" @@ "U+A660" :> "U+A661" @@ "U+A662" :> "U+A663" @@ "U+A664" :> "U+A665" @@ "U+A666" :> "U+A667"
  @@ "U+A668" :> "U+A669" @@ "U+A66A" :> "U+A66B" @@ "U+A66C" :> "U+A66D" @@ "Ꚁ" :> "ꚁ" @@ "Ꚃ" :> "ꚃ"
  @@ "Ꚅ" :> "ꚅ" @@ "Ꚇ" :> "ꚇ" @@ "Ꚉ" :> "ꚉ" @@ "Ꚋ" :> "ꚋ" @@ "Ꚍ" :> "ꚍ"
  @@ "Ꚏ" :> "ꚏ" @@ "Ꚑ" :> "ꚑ" @@ "Ꚓ" :> "ꚓ" @@ "Ꚕ" :> "ꚕ" @@ "Ꚗ" :> "ꚗ"
  @@ "Ꚙ" :> "ꚙ" @@ "Ꚛ" :> "ꚛ"

\* lower-case mappings of the block Latin Extended-D (U+A720 to U+A7FF)
LowerLatinExtendedD ==
     "U+A722" :> "U+A723" @@ "U+A724" :> "U+A725" @@ "U+A726" :> "U+A727" @@ "U+A728" :> "U+A729" @@ "U+A72A" :> "U+A72B"
  @@ "U+A72C" :> "U+A72D" @@ "U+A72E" :> "U+A72F" @@ "U+A732" :> "U+A733" @@ "U+A734" :> "U+A735" @@ "U+A736" :> "U+A737"
  @@ "U+A738" :> "U+A739" @@ "U+A73A" :> "U+A73B" @@ "U+A73C" :> "U+A73D" @@ "U+A73E" :> "U+A73F" @@ "U+A740" :> "U+A741"
  @@ "U+A742" :> "U+A743" @@ "U+A744" :> "U+A745" @@ "U+A746" :> "U+A747" @@ "U+A748" :> "U+A749" @@ "U+A74A" :> "U+A74B"
  @@ "U+A74C" :> "U+A74D" @@ "U+A74E" :> "U+A74F" @@ "U+A750" :> "U+A751" @@ "U+A752" :> "U+A753" @@ "U+A754" :> "U+A755"
  @@ "U+A756" :> "U+A757" @@ "U+A758" :> "U+A759" @@ "U+A75A" :> "U+A75B" @@ "U+A75C" :> "U+A75D" @@ "U+A75E" :> "U+A75F"
  @@ "U+A760" :> "U+A761" @@ "U+A762" :> "U+A763" @@ "U+A764" :> "U+A765" @@ "U+A766" :> "U+A767" @@ "U+A768" :> "U+A769"
  @@ "U+A76A" :> "U+A76B" @@ "U+A76C" :> "U+A76D" @@ "U+A76E" :> "U+A76F" @@ "U+A779" :> "U+A77A" @@ "U+A77B" :> "U+A77C"
  @@ "U+A77D" :> "U+1D79" @@ "U+A77E" :> "U+A77F" @@ "Ꞁ" :> "ꞁ" @@ "Ꞃ" :> "ꞃ" @@ "Ꞅ" :> "ꞅ"
  @@ "Ꞇ" :> "ꞇ" @@ "Ꞌ" :> "ꞌ" @@ "Ɥ" :> "U+0265" @@ "Ꞑ" :> "ꞑ" @@ "Ꞓ" :> "ꞓ"
  @@ "Ꞗ" :> "ꞗ" @@ "Ꞙ" :> "ꞙ" @@ "Ꞛ" :> "ꞛ" @@ "Ꞝ" :> "ꞝ" @@ "Ꞟ" :> "ꞟ"
  @@ "Ꞡ" :> "ꞡ" @@ "Ꞣ" :> "ꞣ" @@ "Ꞥ" :> "ꞥ" @@ "Ꞧ" :> "ꞧ" @@ "Ꞩ" :> "ꞩ"
  @@ "Ɦ" :> "U+0266" @@ "Ɜ" :> "U+025C" @@ "Ɡ" :> "U+0261" @@ "Ɬ" :> "U+026C" @@ "Ɪ" :> "U+026A"
  @@ "Ʞ" :> "ʞ" @@ "Ʇ" :> "ʇ" @@ "Ʝ" :> "ʝ" @@ "Ꭓ" :> "U+AB53" @@ "Ꞵ" :> "ꞵ"
  @@ "Ꞷ" :> "ꞷ" @@ "Ꞹ" :> "ꞹ" @@ "Ꞻ" :> "ꞻ" @@ "Ꞽ" :> "ꞽ" @@ "Ꞿ" :> "ꞿ"
  @@ "Ꟁ" :> "ꟁ" @@ "Ꟃ" :> "ꟃ" @@ "Ꞔ" :> "ꞔ" @@ "Ʂ" :> "ʂ" @@ "Ᶎ" :> "ᶎ"
  @@ "Ꟈ" :> "ꟈ" @@ "Ꟊ" :> "ꟊ" @@ "Ɤ" :> "U+0264" @@ "Ꟍ" :> "ꟍ" @@ "꟎" :> "꟏"
  @@ "Ꟑ" :> "ꟑ" @@ "꟒" :> "ꟓ" @@ "꟔" :> "ꟕ" @@ "Ꟗ" :> "ꟗ" @@ "Ꟙ" :> "ꟙ"
  @@ "Ꟛ" :> "ꟛ" @@ "Ƛ" :> "ƛ" @@ "Ꟶ" :> "ꟶ"

\* lower-case mappings of the block Halfwidth and Fullwidth Forms (U+FF00 to U+FFEF)
LowerHalfwidthAndFullwidthForms ==
     "U+FF21" :> "U+FF41" @@ "U+FF22" :> "U+FF42" @@ "U+FF23" :> "U+FF43" @@ "U+FF24" :> "U+FF44" @@ "U+FF25" :> "U+FF45"
  @@ "U+FF26" :> "U+FF46" @@ "U+FF27" :> "U+FF47" @@ "U+FF28" :> "U+FF48" @@ "U+FF29" :> "U+FF49" @@ "U+FF2A" :> "U+FF4A"
  @@ "U+FF2B" :> "U+FF4B" @@ "U+FF2C" :> "U+FF4C" @@ "U+FF2D" :> "U+FF4D" @@ "U+FF2E" :> "U+FF4E" @@ "U+FF2F" :> "U+FF4F"
  @@ "U+FF30" :> "U+FF50" @@ "U+FF31" :> "U+FF51" @@ "U+FF32" :> "U+FF52" @@ "U+FF33" :> "U+FF53" @@ "U+FF34" :> "U+FF54"
  @@ "U+FF35" :> "U+FF55" @@ "U+FF36" :> "U+FF56" @@ "U+FF37" :> "U+FF57" @@ "U+FF38" :> "U+FF58" @@ "U+FF39" :> "U+FF59"
  @@ "U+FF3A" :> "U+FF5A"

\* the lower-case mapping of every code unit that has one and is not I WITH
\* DOT ABOVE (Unicode Character Database 17.0, UnicodeData and SpecialCasing)
UpperToLower ==
     LowerBasicLatin @@ LowerLatin1Supplement @@ LowerLatinExtendedA
  @@ LowerLatinExtendedB @@ LowerGreekAndCoptic @@ LowerCyrillic
  @@ LowerCyrillicSupplement @@ LowerArmenian @@ LowerGeorgian
  @@ LowerCherokee @@ LowerCyrillicExtendedC @@ LowerGeorgianExtended
  @@ LowerLatinExtendedAdditional @@ LowerGreekExtended @@ LowerLetterlikeSymbols
  @@ LowerNumberForms @@ LowerEnclosedAlphanumerics @@ LowerGlagolitic
  @@ LowerLatinExtendedC @@ LowerCoptic @@ LowerCyrillicExtendedB
  @@ LowerLatinExtendedD @@ LowerHalfwidthAndFullwidthForms

\* lower-case mappings of the block Deseret (U+10400 to U+1044F): the trail units, after the lead unit U+D801
LowerDeseret ==
     "U+DC00" :> "U+DC28" @@ "U+DC01" :> "U+DC29" @@ "U+DC02" :> "U+DC2A" @@ "U+DC03" :> "U+DC2B" @@ "U+DC04" :> "U+DC2C"
  @@ "U+DC05" :> "U+DC2D" @@ "U+DC06" :> "U+DC2E" @@ "U+DC07" :> "U+DC2F" @@ "U+DC08" :> "U+DC30" @@ "U+DC09" :> "U+DC31"
  @@ "U+DC0A" :> "U+DC32" @@ "U+DC0B" :> "U+DC33" @@ "U+DC0C" :> "U+DC34" @@ "U+DC0D" :> "U+DC35" @@ "U+DC0E" :> "U+DC36"
  @@ "U+DC0F" :> "U+DC37" @@ "U+DC10" :> "U+DC38" @@ "U+DC11" :> "U+DC39" @@ "U+DC12" :> "U+DC3A" @@ "U+DC13" :> "U+DC3B"
  @@ "U+DC14" :> "U+DC3C" @@ "U+DC15" :> "U+DC3D" @@ "U+DC16" :> "U+DC3E" @@ "U+DC17" :> "U+DC3F" @@ "U+DC18" :> "U+DC40"
  @@ "U+DC19" :> "U+DC41" @@ "U+DC1A" :> "U+DC42" @@ "U+DC1B" :> "U+DC43" @@ "U+DC1C" :> "U+DC44" @@ "U+DC1D" :> "U+DC45"
  @@ "U+DC1E" :> "U+DC46" @@ "U+DC1F" :> "U+DC47" @@ "U+DC20" :> "U+DC48" @@ "U+DC21" :> "U+DC49" @@ "U+DC22" :> "U+DC4A"
  @@ "U+DC23" :> "U+DC4B" @@ "U+DC24" :> "U+DC4C" @@ "U+DC25" :> "U+DC4D" @@ "U+DC26" :> "U+DC4E" @@ "U+DC27" :> "U+DC4F"

\* lower-case mappings of the block Osage (U+104B0 to U+104FF): the trail units, after the lead unit U+D801
LowerOsage ==
     "U+DCB0" :> "U+DCD8" @@ "U+DCB1" :> "U+DCD9" @@ "U+DCB2" :> "U+DCDA" @@ "U+DCB3" :> "U+DCDB" @@ "U+DCB4" :> "U+DCDC"
  @@ "U+DCB5" :> "U+DCDD" @@ "U+DCB6" :> "U+DCDE" @@ "U+DCB7" :> "U+DCDF" @@ "U+DCB8" :> "U+DCE0" @@ "U+DCB9" :> "U+DCE1"
  @@ "U+DCBA" :> "U+DCE2" @@ "U+DCBB" :> "U+DCE3" @@ "U+DCBC" :> "U+DCE4" @@ "U+DCBD" :> "U+DCE5" @@ "U+DCBE" :> "U+DCE6"
  @@ "U+DCBF" :> "U+DCE7" @@ "U+DCC0" :> "U+DCE8" @@ "U+DCC1" :> "U+DCE9" @@ "U+DCC2" :> "U+DCEA" @@ "U+DCC3" :> "U+DCEB"
  @@ "U+DCC4" :> "U+DCEC" @@ "U+DCC5" :> "U+DCED" @@ "U+DCC6" :> "U+DCEE" @@ "U+DCC7" :> "U+DCEF" @@ "U+DCC8" :> "U+DCF0"
  @@ "U+DCC9" :> "U+DCF1" @@ "U+DCCA" :> "U+DCF2" @@ "U+DCCB" :> "U+DCF3" @@ "U+DCCC" :> "U+DCF4" @@ "U+DCCD" :> "U+DCF5"
  @@ "U+DCCE" :> "U+DCF6" @@ "U+DCCF" :> "U+DCF7" @@ "U+DCD0" :> "U+DCF8" @@ "U+DCD1" :> "U+DCF9" @@ "U+DCD2" :> "U+DCFA"
  @@ "U+DCD3" :> "U+DCFB"

\* lower-case mappings of the block Vithkuqi (U+10570 to U+105BF): the trail units, after the lead unit U+D801
LowerVithkuqi ==
     "U+DD70" :> "U+DD97" @@ "U+DD71" :> "U+DD98" @@ "U+DD72" :> "U+DD99" @@ "U+DD73" :> "U+DD9A" @@ "U+DD74" :> "U+DD9B"
  @@ "U+DD75" :> "U+DD9C" @@ "U+DD76" :> "U+DD9D" @@ "U+DD77" :> "U+DD9E" @@ "U+DD78" :> "U+DD9F" @@ "U+DD79" :> "U+DDA0"
  @@ "U+DD7A" :> "U+DDA1" @@ "U+DD7C" :> "U+DDA3" @@ "U+DD7D" :> "U+DDA4" @@ "U+DD7E" :> "U+DDA5" @@ "U+DD7F" :> "U+DDA6"
  @@ "U+DD80" :> "U+DDA7" @@ "U+DD81" :> "U+DDA8" @@ "U+DD82" :> "U+DDA9" @@ "U+DD83" :> "U+DDAA" @@ "U+DD84" :> "U+DDAB"
  @@ "U+DD85" :> "U+DDAC" @@ "U+DD86" :> "U+DDAD" @@ "U+DD87" :> "U+DDAE" @@ "U+DD88" :> "U+DDAF" @@ "U+DD89" :> "U+DDB0"
  @@ "U+DD8A" :> "U+DDB1" @@ "U+DD8C" :> "U+DDB3" @@ "U+DD8D" :> "U+DDB4" @@ "U+DD8E" :> "U+DDB5" @@ "U+DD8F" :> "U+DDB6"
  @@ "U+DD90" :> "U+DDB7" @@ "U+DD91" :> "U+DDB8" @@ "U+DD92" :> "U+DDB9" @@ "U+DD94" :> "U+DDBB" @@ "U+DD95" :> "U+DDBC"

\* lower-case mappings of the block Old Hungarian (U+10C80 to U+10CFF): the trail units, after the lead unit U+D803
LowerOldHungarian ==
     "U+DC80" :> "U+DCC0" @@ "U+DC81" :> "U+DCC1" @@ "U+DC82" :> "U+DCC2" @@ "U+DC83" :> "U+DCC3" @@ "U+DC84" :> "U+DCC4"
  @@ "U+DC85" :> "U+DCC5" @@ "U+DC86" :> "U+DCC6" @@ "U+DC87" :> "U+DCC7" @@ "U+DC88" :> "U+DCC8" @@ "U+DC89" :> "U+DCC9"
  @@ "U+DC8A" :> "U+DCCA" @@ "U+DC8B" :> "U+DCCB" @@ "U+DC8C" :> "U+DCCC" @@ "U+DC8D" :> "U+DCCD" @@ "U+DC8E" :> "U+DCCE"
  @@ "U+DC8F" :> "U+DCCF" @@ "U+DC90" :> "U+DCD0" @@ "U+DC91" :> "U+DCD1" @@ "U+DC92" :> "U+DCD2" @@ "U+DC93" :> "U+DCD3"
  @@ "U+DC94" :> "U+DCD4" @@ "U+DC95" :> "U+DCD5" @@ "U+DC96" :> "U+DCD6" @@ "U+DC97" :> "U+DCD7" @@ "U+DC98" :> "U+DCD8"
  @@ "U+DC99" :> "U+DCD9" @@ "U+DC9A" :> "U+DCDA" @@ "U+DC9B" :> "U+DCDB" @@ "U+DC9C" :> "U+DCDC" @@ "U+DC9D" :> "U+DCDD"
  @@ "U+DC9E" :> "U+DCDE" @@ "U+DC9F" :> "U+DCDF" @@ "U+DCA0" :> "U+DCE0" @@ "U+DCA1" :> "U+DCE1" @@ "U+DCA2" :> "U+DCE2"
  @@ "U+DCA3" :> "U+DCE3" @@ "U+DCA4" :> "U+DCE4" @@ "U+DCA5" :> "U+DCE5" @@ "U+DCA6" :> "U+DCE6" @@ "U+DCA7" :> "U+DCE7"
  @@ "U+DCA8" :> "U+DCE8" @@ "U+DCA9" :> "U+DCE9" @@ "U+DCAA" :> "U+DCEA" @@ "U+DCAB" :> "U+DCEB" @@ "U+DCAC" :> "U+DCEC"
  @@ "U+DCAD" :> "U+DCED" @@ "U+DCAE" :> "U+DCEE" @@ "U+DCAF" :> "U+DCEF" @@ "U+DCB0" :> "U+DCF0" @@ "U+DCB1" :> "U+DCF1"
  @@ "U+DCB2" :> "U+DCF2"

\* lower-case mappings of the block Garay (U+10D40 to U+10D8F): the trail units, after the lead unit U+D803
LowerGaray ==
     "U+DD50" :> "U+DD70" @@ "U+DD51" :> "U+DD71" @@ "U+DD52" :> "U+DD72" @@ "U+DD53" :> "U+DD73" @@ "U+DD54" :> "U+DD74"
  @@ "U+DD55" :> "U+DD75" @@ "U+DD56" :> "U+DD76" @@ "U+DD57" :> "U+DD77" @@ "U+DD58" :> "U+DD78" @@ "U+DD59" :> "U+DD79"
  @@ "U+DD5A" :> "U+DD7A" @@ "U+DD5B" :> "U+DD7B" @@ "U+DD5C" :> "U+DD7C" @@ "U+DD5D" :> "U+DD7D" @@ "U+DD5E" :> "U+DD7E"
  @@ "U+DD5F" :> "U+DD7F" @@ "U+DD60" :> "U+DD80" @@ "U+DD61" :> "U+DD81" @@ "U+DD62" :> "U+DD82" @@ "U+DD63" :> "U+DD83"
  @@ "U+DD64" :> "U+DD84" @@ "U+DD65" :> "U+DD85"

\* lower-case mappings of the block Warang Citi (U+118A0 to U+118FF): the trail units, after the lead unit U+D806
LowerWarangCiti ==
     "U+DCA0" :> "U+DCC0" @@ "U+DCA1" :> "U+DCC1" @@ "U+DCA2" :> "U+DCC2" @@ "U+DCA3" :> "U+DCC3" @@ "U+DCA4" :> "U+DCC4"
  @@ "U+DCA5" :> "U+DCC5" @@ "U+DCA6" :> "U+DCC6" @@ "U+DCA7" :> "U+DCC7" @@ "U+DCA8" :> "U+DCC8" @@ "U+DCA9" :> "U+DCC9"
  @@ "U+DCAA" :> "U+DCCA" @@ "U+DCAB" :> "U+DCCB" @@ "U+DCAC" :> "U+DCCC" @@ "U+DCAD" :> "U+DCCD" @@ "U+DCAE" :> "U+DCCE"
  @@ "U+DCAF" :> "U+DCCF" @@ "U+DCB0" :> "U+DCD0" @@ "U+DCB1" :> "U+DCD1" @@ "U+DCB2" :> "U+DCD2" @@ "U+DCB3" :> "U+DCD3"
  @@ "U+DCB4" :> "U+DCD4" @@ "U+DCB5" :> "U+DCD5" @@ "U+DCB6" :> "U+DCD6" @@ "U+DCB7" :> "U+DCD7" @@ "U+DCB8" :> "U+DCD8"
  @@ "U+DCB9" :> "U+DCD9" @@ "U+DCBA" :> "U+DCDA" @@ "U+DCBB" :> "U+DCDB" @@ "U+DCBC" :> "U+DCDC" @@ "U+DCBD" :> "U+DCDD"
  @@ "U+DCBE" :> "U+DCDE" @@ "U+DCBF" :> "U+DCDF"

\* lower-case mappings of the block Medefaidrin (U+16E40 to U+16E9F): the trail units, after the lead unit U+D81B
LowerMedefaidrin ==
     "U+DE40" :> "U+DE60" @@ "U+DE41" :> "U+DE61" @@ "U+DE42" :> "U+DE62" @@ "U+DE43" :> "U+DE63" @@ "U+DE44" :> "U+DE64"
  @@ "U+DE45" :> "U+DE65" @@ "U+DE46" :> "U+DE66" @@ "U+DE47" :> "U+DE67" @@ "U+DE48" :> "U+DE68" @@ "U+DE49" :> "U+DE69"
  @@ "U+DE4A" :> "U+DE6A" @@ "U+DE4B" :> "U+DE6B" @@ "U+DE4C" :> "U+DE6C" @@ "U+DE4D" :> "U+DE6D" @@ "U+DE4E" :> "U+DE6E"
  @@ "U+DE4F" :> "U+DE6F" @@ "U+DE50" :> "U+DE70" @@ "U+DE51" :> "U+DE71" @@ "U+DE52" :> "U+DE72" @@ "U+DE53" :> "U+DE73"
  @@ "U+DE54" :> "U+DE74" @@ "U+DE55" :> "U+DE75" @@ "U+DE56" :> "U+DE76" @@ "U+DE57" :> "U+DE77" @@ "U+DE58" :> "U+DE78"
  @@ "U+DE59" :> "U+DE79" @@ "U+DE5A" :> "U+DE7A" @@ "U+DE5B" :> "U+DE7B" @@ "U+DE5C" :> "U+DE7C" @@ "U+DE5D" :> "U+DE7D"
  @@ "U+DE5E" :> "U+DE7E" @@ "U+DE5F" :> "U+DE7F"

\* lower-case mappings of the block Beria Erfe (U+16EA0 to U+16EDF): the trail units, after the lead unit U+D81B
LowerBeriaErfe ==
     "U+DEA0" :> "U+DEBB" @@ "U+DEA1" :> "U+DEBC" @@ "U+DEA2" :> "U+DEBD" @@ "U+DEA3" :> "U+DEBE" @@ "U+DEA4" :> "U+DEBF"
  @@ "U+DEA5" :> "U+DEC0" @@ "U+DEA6" :> "U+DEC1" @@ "U+DEA7" :> "U+DEC2" @@ "U+DEA8" :> "U+DEC3" @@ "U+DEA9" :> "U+DEC4"
  @@ "U+DEAA" :> "U+DEC5" @@ "U+DEAB" :> "U+DEC6" @@ "U+DEAC" :> "U+DEC7" @@ "U+DEAD" :> "U+DEC8" @@ "U+DEAE" :> "U+DEC9"
  @@ "U+DEAF" :> "U+DECA" @@ "U+DEB0" :> "U+DECB" @@ "U+DEB1" :> "U+DECC" @@ "U+DEB2" :> "U+DECD" @@ "U+DEB3" :> "U+DECE"
  @@ "U+DEB4" :> "U+DECF" @@ "U+DEB5" :> "U+DED0" @@ "U+DEB6" :> "U+DED1" @@ "U+DEB7" :> "U+DED2" @@ "U+DEB8" :> "U+DED3"

\* lower-case mappings of the block Adlam (U+1E900 to U+1E95F): the trail units, after the lead unit U+D83A
LowerAdlam ==
     "U+DD00" :> "U+DD22" @@ "U+DD01" :> "U+DD23" @@ "U+DD02" :> "U+DD24" @@ "U+DD03" :> "U+DD25" @@ "U+DD04" :> "U+DD26"
  @@ "U+DD05" :> "U+DD27" @@ "U+DD06" :> "U+DD28" @@ "U+DD07" :> "U+DD29" @@ "U+DD08" :> "U+DD2A" @@ "U+DD09" :> "U+DD2B"
  @@ "U+DD0A" :> "U+DD2C" @@ "U+DD0B" :> "U+DD2D" @@ "U+DD0C" :> "U+DD2E" @@ "U+DD0D" :> "U+DD2F" @@ "U+DD0E" :> "U+DD30"
  @@ "U+DD0F" :> "U+DD31" @@ "U+DD10" :> "U+DD32" @@ "U+DD11" :> "U+DD33" @@ "U+DD12" :> "U+DD34" @@ "U+DD13" :> "U+DD35"
  @@ "U+DD14" :> "U+DD36" @@ "U+DD15" :> "U+DD37" @@ "U+DD16" :> "U+DD38" @@ "U+DD17" :> "U+DD39" @@ "U+DD18" :> "U+DD3A"
  @@ "U+DD19" :> "U+DD3B" @@ "U+DD1A" :> "U+DD3C" @@ "U+DD1B" :> "U+DD3D" @@ "U+DD1C" :> "U+DD3E" @@ "U+DD1D" :> "U+DD3F"
  @@ "U+DD1E" :> "U+DD40" @@ "U+DD1F" :> "U+DD41" @@ "U+DD20" :> "U+DD42" @@ "U+DD21" :> "U+DD43"

\* the lower-case mappings of the characters beyond U+FFFF: lead unit to
\* (trail unit to the trail unit of the lower case); the lead unit stays
SupplementaryToLower ==
     "U+D801" :> (LowerDeseret @@ LowerOsage @@ LowerVithkuqi)
  @@ "U+D803" :> (LowerOldHungarian @@ LowerGaray)
  @@ "U+D806" :> LowerWarangCiti
  @@ "U+D81B" :> (LowerMedefaidrin @@ LowerBeriaErfe)
  @@ "U+D83A" :> LowerAdlam

\* code units with the property Cased and without Case_Ignorable that are on neither side of a mapping of UpperToLower
OtherCased ==
  { "ª", "µ", "º", "U+0130", "U+0131", "U+0138", "U+0149", "U+017F",
    "ƍ", "ƪ", "ƫ", "ƺ", "ƾ", "ǰ", "U+0221", "U+0234",
    "U+0235", "U+0236", "U+0237", "U+0238", "U+0239", "U+0255", "U+0258", "U+025A",
    "U+025D", "U+025E", "U+025F", "U+0262", "U+0267", "U+026D", "U+026E", "U+0270",
    "U+0273", "U+0274", "U+0276", "U+0277", "U+0278", "U+0279", "U+027A", "U+027B",
    "U+027C", "U+027E", "U+027F", "ʁ", "ʄ", "ʅ", "ʆ", "ʍ",
    "ʎ", "ʏ", "ʐ", "ʑ", "ʓ", "ʖ", "ʗ", "ʘ",
    "ʙ", "ʚ", "ʛ", "ʜ", "ʟ", "ʠ", "ʡ", "ʢ",
    "ʣ", "ʤ", "ʥ", "ʦ", "ʧ", "ʨ", "ʩ", "ʪ",
    "ʫ", "ʬ", "ʭ", "ʮ", "ʯ", "ΐ", "ΰ", "ς",
    "ϐ", "ϑ", "ϒ", "ϓ", "ϔ", "ϕ", "ϖ", "ϰ",
    "ϱ", "ϵ", "ϼ", "U+0560", "և", "ֈ", "ᲀ", "ᲁ",
    "ᲂ", "ᲃ", "ᲄ", "ᲅ", "ᲆ", "ᲇ", "ᲈ", "U+1D00",
    "U+1D01", "U+1D02", "U+1D03", "U+1D04", "U+1D05", "U+1D06", "U+1D07", "U+1D08",
    "U+1D09", "U+1D0A", "U+1D0B", "U+1D0C", "U+1D0D", "U+1D0E", "U+1D0F", "U+1D10",
    "U+1D11", "U+1D12", "U+1D13", "U+1D14", "U+1D15", "U+1D16", "U+1D17", "U+1D18",
    "U+1D19", "U+1D1A", "U+1D1B", "U+1D1C", "U+1D1D", "U+1D1E", "U+1D1F", "U+1D20",
    "U+1D21", "U+1D22", "U+1D23", "U+1D24", "U+1D25", "U+1D26", "U+1D27", "U+1D28",
    "U+1D29", "U+1D2A", "U+1D2B", "U+1D6B", "U+1D6C", "U+1D6D", "U+1D6E", "U+1D6F",
    "U+1D70", "U+1D71", "U+1D72", "U+1D73", "U+1D74", "U+1D75", "U+1D76", "U+1D77",
    "U+1D7A", "U+1D7B", "U+1D7C", "U+1D7E", "U+1D7F", "ᶀ", "ᶁ", "ᶂ",
    "ᶃ", "ᶄ", "ᶅ", "ᶆ", "ᶇ", "ᶈ", "ᶉ", "ᶊ",
    "ᶋ", "ᶌ", "ᶍ", "ᶏ", "ᶐ", "ᶑ", "ᶒ", "ᶓ",
    "ᶔ", "ᶕ", "ᶖ", "ᶗ", "ᶘ", "ᶙ", "ᶚ", "ẖ",
    "ẗ", "ẘ", "ẙ", "ẚ", "ẛ", "ẜ", "ẝ", "ẟ",
    "U+1F50", "U+1F52", "U+1F54", "U+1F56", "ᾲ", "ᾴ", "ᾶ", "ᾷ",
    "ι", "ῂ", "ῄ", "ῆ", "ῇ", "ῒ", "ΐ", "ῖ",
    "ῗ", "ῢ", "ΰ", "ῤ", "ῦ", "ῧ", "ῲ", "ῴ",
    "ῶ", "ῷ", "U+2102", "U+2107", "U+210A", "U+210B", "U+210C", "U+210D",
    "U+210E", "U+210F", "U+2110", "U+2111", "U+2112", "U+2113", "U+2115", "U+2119",
    "U+211A", "U+211B", "U+211C", "U+211D", "U+2124", "U+2128", "U+212C", "U+212D",
    "U+212F", "U+2130", "U+2131", "U+2133", "U+2134", "U+2139", "U+213C", "U+213D",
    "U+213E", "U+213F", "U+2145", "U+2146", "U+2147", "U+2148", "U+2149", "U+2C71",
    "U+2C74", "U+2C77", "U+2C78", "U+2C79", "U+2C7A", "U+2C7B", "ⳤ", "U+A730",
    "U+A731", "U+A771", "U+A772", "U+A773", "U+A774", "U+A775", "U+A776", "U+A777",
    "U+A778", "ꞎ", "ꞕ", "ꞯ", "ꟺ", "U+AB30", "U+AB31", "U+AB32",
    "U+AB33", "U+AB34", "U+AB35", "U+AB36", "U+AB37", "U+AB38", "U+AB39", "U+AB3A",
    "U+AB3B", "U+AB3C", "U+AB3D", "U+AB3E", "U+AB3F", "U+AB40", "U+AB41", "U+AB42",
    "U+AB43", "U+AB44", "U+AB45", "U+AB46", "U+AB47", "U+AB48", "U+AB49", "U+AB4A",
    "U+AB4B", "U+AB4C", "U+AB4D", "U+AB4E", "U+AB4F", "U+AB50", "U+AB51", "U+AB52",
    "U+AB54", "U+AB55", "U+AB56", "U+AB57", "U+AB58", "U+AB59", "U+AB5A", "U+AB60",
    "U+AB61", "U+AB62", "U+AB63", "U+AB64", "U+AB65", "U+AB66", "U+AB67", "U+AB68",
    "U+FB00", "U+FB01", "U+FB02", "U+FB03", "U+FB04", "U+FB05", "U+FB06", "U+FB13",
    "U+FB14", "U+FB15", "U+FB16", "U+FB17" }

\* the characters beyond U+FFFF with Cased and without Case_Ignorable: lead unit to trail units
SupplementaryCased ==
     "U+D801" :>
       { "U+DC00", "U+DC01", "U+DC02", "U+DC03", "U+DC04", "U+DC05", "U+DC06", "U+DC07",
         "U+DC08", "U+DC09", "U+DC0A", "U+DC0B", "U+DC0C", "U+DC0D", "U+DC0E", "U+DC0F",
         "U+DC10", "U+DC11", "U+DC12", "U+DC13", "U+DC14", "U+DC15", "U+DC16", "U+DC17",
         "U+DC18", "U+DC19", "U+DC1A", "U+DC1B", "U+DC1C", "U+DC1D", "U+DC1E", "U+DC1F",
         "U+DC20", "U+DC21", "U+DC22", "U+DC23", "U+DC24", "U+DC25", "U+DC26", "U+DC27",
         "U+DC28", "U+DC29", "U+DC2A", "U+DC2B", "U+DC2C", "U+DC2D", "U+DC2E", "U+DC2F",
         "U+DC30", "U+DC31", "U+DC32", "U+DC33", "U+DC34", "U+DC35", "U+DC36", "U+DC37",
         "U+DC38", "U+DC39", "U+DC3A", "U+DC3B", "U+DC3C", "U+DC3D", "U+DC3E", "U+DC3F",
         "U+DC40", "U+DC41", "U+DC42", "U+DC43", "U+DC44", "U+DC45", "U+DC46", "U+DC47",
         "U+DC48", "U+DC49", "U+DC4A", "U+DC4B", "U+DC4C", "U+DC4D", "U+DC4E", "U+DC4F",
         "U+DCB0", "U+DCB1", "U+DCB2", "U+DCB3", "U+DCB4", "U+DCB5", "U+DCB6", "U+DCB7",
         "U+DCB8", "U+DCB9", "U+DCBA", "U+DCBB", "U+DCBC", "U+DCBD", "U+DCBE", "U+DCBF",
         "U+DCC0", "U+DCC1", "U+DCC2", "U+DCC3", "U+DCC4", "U+DCC5", "U+DCC6", "U+DCC7",
         "U+DCC8", "U+DCC9", "U+DCCA", "U+DCCB", "U+DCCC", "U+DCCD", "U+DCCE", "U+DCCF",
         "U+DCD0", "U+DCD1", "U+DCD2", "U+DCD3", "U+DCD8", "U+DCD9", "U+DCDA", "U+DCDB",
         "U+DCDC", "U+DCDD", "U+DCDE", "U+DCDF", "U+DCE0", "U+DCE1", "U+DCE2", "U+DCE3",
         "U+DCE4", "U+DCE5", "U+DCE6", "U+DCE7", "U+DCE8", "U+DCE9", "U+DCEA", "U+DCEB",
         "U+DCEC", "U+DCED", "U+DCEE", "U+DCEF", "U+DCF0", "U+DCF1", "U+DCF2", "U+DCF3",
         "U+DCF4", "U+DCF5", "U+DCF6", "U+DCF7", "U+DCF8", "U+DCF9", "U+DCFA", "U+DCFB",
         "U+DD70", "U+DD71", "U+DD72", "U+DD73", "U+DD74", "U+DD75", "U+DD76", "U+DD77",
         "U+DD78", "U+DD79", "U+DD7A", "U+DD7C", "U+DD7D", "U+DD7E", "U+DD7F", "U+DD80",
         "U+DD81", "U+DD82", "U+DD83", "U+DD84", "U+DD85", "U+DD86", "U+DD87", "U+DD88",
         "U+DD89", "U+DD8A", "U+DD8C", "U+DD8D", "U+DD8E", "U+DD8F", "U+DD90", "U+DD91",
         "U+DD92", "U+DD94", "U+DD95", "U+DD97", "U+DD98", "U+DD99", "U+DD9A", "U+DD9B",
         "U+DD9C", "U+DD9D", "U+DD9E", "U+DD9F", "U+DDA0", "U+DDA1", "U+DDA3", "U+DDA4",
         "U+DDA5", "U+DDA6", "U+DDA7", "U+DDA8", "U+DDA9", "U+DDAA", "U+DDAB", "U+DDAC",
         "U+DDAD", "U+DDAE", "U+DDAF", "U+DDB0", "U+DDB1", "U+DDB3", "U+DDB4", "U+DDB5",
         "U+DDB6", "U+DDB7", "U+DDB8", "U+DDB9", "U+DDBB", "U+DDBC" }
  @@ "U+D803" :>
       { "U+DC80", "U+DC81", "U+DC82", "U+DC83", "U+DC84", "U+DC85", "U+DC86", "U+DC87",
         "U+DC88", "U+DC89", "U+DC8A", "U+DC8B", "U+DC8C", "U+DC8D", "U+DC8E", "U+DC8F",
         "U+DC90", "U+DC91", "U+DC92", "U+DC93", "U+DC94", "U+DC95", "U+DC96", "U+DC97",
         "U+DC98", "U+DC99", "U+DC9A", "U+DC9B", "U+DC9C", "U+DC9D", "U+DC9E", "U+DC9F",
         "U+DCA0", "U+DCA1", "U+DCA2", "U+DCA3", "U+DCA4", "U+DCA5", "U+DCA6", "U+DCA7",
         "U+DCA8", "U+DCA9", "U+DCAA", "U+DCAB", "U+DCAC", "U+DCAD", "U+DCAE", "U+DCAF",
         "U+DCB0", "U+DCB1", "U+DCB2", "U+DCC0", "U+DCC1", "U+DCC2", "U+DCC3", "U+DCC4",
         "U+DCC5", "U+DCC6", "U+DCC7", "U+DCC8", "U+DCC9", "U+DCCA", "U+DCCB", "U+DCCC",
         "U+DCCD", "U+DCCE", "U+DCCF", "U+DCD0", "U+DCD1", "U+DCD2", "U+DCD3", "U+DCD4",
         "U+DCD5", "U+DCD6", "U+DCD7", "U+DCD8", "U+DCD9", "U+DCDA", "U+DCDB", "U+DCDC",
         "U+DCDD", "U+DCDE", "U+DCDF", "U+DCE0", "U+DCE1", "U+DCE2", "U+DCE3", "U+DCE4",
         "U+DCE5", "U+DCE6", "U+DCE7", "U+DCE8", "U+DCE9", "U+DCEA", "U+DCEB", "U+DCEC",
         "U+DCED", "U+DCEE", "U+DCEF", "U+DCF0", "U+DCF1", "U+DCF2", "U+DD50", "U+DD51",
         "U+DD52", "U+DD53", "U+DD54", "U+DD55", "U+DD56", "U+DD57", "U+DD58", "U+DD59",
         "U+DD5A", "U+DD5B", "U+DD5C", "U+DD5D", "U+DD5E", "U+DD5F", "U+DD60", "U+DD61",
         "U+DD62", "U+DD63", "U+DD64", "U+DD65", "U+DD70", "U+DD71", "U+DD72", "U+DD73",
         "U+DD74", "U+DD75", "U+DD76", "U+DD77", "U+DD78", "U+DD79", "U+DD7A", "U+DD7B",
         "U+DD7C", "U+DD7D", "U+DD7E", "U+DD7F", "U+DD80", "U+DD81", "U+DD82", "U+DD83",
         "U+DD84", "U+DD85" }
  @@ "U+D806" :>
       { "U+DCA0", "U+DCA1", "U+DCA2", "U+DCA3", "U+DCA4", "U+DCA5", "U+DCA6", "U+DCA7",
         "U+DCA8", "U+DCA9", "U+DCAA", "U+DCAB", "U+DCAC", "U+DCAD", "U+DCAE", "U+DCAF",
         "U+DCB0", "U+DCB1", "U+DCB2", "U+DCB3", "U+DCB4", "U+DCB5", "U+DCB6", "U+DCB7",
         "U+DCB8", "U+DCB9", "U+DCBA", "U+DCBB", "U+DCBC", "U+DCBD", "U+DCBE", "U+DCBF",
         "U+DCC0", "U+DCC1", "U+DCC2", "U+DCC3", "U+DCC4", "U+DCC5", "U+DCC6", "U+DCC7",
         "U+DCC8", "U+DCC9", "U+DCCA", "U+DCCB", "U+DCCC", "U+DCCD", "U+DCCE", "U+DCCF",
         "U+DCD0", "U+DCD1", "U+DCD2", "U+DCD3", "U+DCD4", "U+DCD5", "U+DCD6", "U+DCD7",
         "U+DCD8", "U+DCD9", "U+DCDA", "U+DCDB", "U+DCDC", "U+DCDD", "U+DCDE", "U+DCDF" }
  @@ "U+D81B" :>
       { "U+DE40", "U+DE41", "U+DE42", "U+DE43", "U+DE44", "U+DE45", "U+DE46", "U+DE47",
         "U+DE48", "U+DE49", "U+DE4A", "U+DE4B", "U+DE4C", "U+DE4D", "U+DE4E", "U+DE4F",
         "U+DE50", "U+DE51", "U+DE52", "U+DE53", "U+DE54", "U+DE55", "U+DE56", "U+DE57",
         "U+DE58", "U+DE59", "U+DE5A", "U+DE5B", "U+DE5C", "U+DE5D", "U+DE5E", "U+DE5F",
         "U+DE60", "U+DE61", "U+DE62", "U+DE63", "U+DE64", "U+DE65", "U+DE66", "U+DE67",
         "U+DE68", "U+DE69", "U+DE6A", "U+DE6B", "U+DE6C", "U+DE6D", "U+DE6E", "U+DE6F",
         "U+DE70", "U+DE71", "U+DE72", "U+DE73", "U+DE74", "U+DE75", "U+DE76", "U+DE77",
         "U+DE78", "U+DE79", "U+DE7A", "U+DE7B", "U+DE7C", "U+DE7D", "U+DE7E", "U+DE7F",
         "U+DEA0", "U+DEA1", "U+DEA2", "U+DEA3", "U+DEA4", "U+DEA5", "U+DEA6", "U+DEA7",
         "U+DEA8", "U+DEA9", "U+DEAA", "U+DEAB", "U+DEAC", "U+DEAD", "U+DEAE", "U+DEAF",
         "U+DEB0", "U+DEB1", "U+DEB2", "U+DEB3", "U+DEB4", "U+DEB5", "U+DEB6", "U+DEB7",
         "U+DEB8", "U+DEBB", "U+DEBC", "U+DEBD", "U+DEBE", "U+DEBF", "U+DEC0", "U+DEC1",
         "U+DEC2", "U+DEC3", "U+DEC4", "U+DEC5", "U+DEC6", "U+DEC7", "U+DEC8", "U+DEC9",
         "U+DECA", "U+DECB", "U+DECC", "U+DECD", "U+DECE", "U+DECF", "U+DED0", "U+DED1",
         "U+DED2", "U+DED3" }
  @@ "U+D835" :>
       { "U+DC00", "U+DC01", "U+DC02", "U+DC03", "U+DC04", "U+DC05", "U+DC06", "U+DC07",
         "U+DC08", "U+DC09", "U+DC0A", "U+DC0B", "U+DC0C", "U+DC0D", "U+DC0E", "U+DC0F",
         "U+DC10", "U+DC11", "U+DC12", "U+DC13", "U+DC14", "U+DC15", "U+DC16", "U+DC17",
         "U+DC18", "U+DC19", "U+DC1A", "U+DC1B", "U+DC1C", "U+DC1D", "U+DC1E", "U+DC1F",
         "U+DC20", "U+DC21", "U+DC22", "U+DC23", "U+DC24", "U+DC25", "U+DC26", "U+DC27",
         "U+DC28", "U+DC29", "U+DC2A", "U+DC2B", "U+DC2C", "U+DC2D", "U+DC2E", "U+DC2F",
         "U+DC30", "U+DC31", "U+DC32", "U+DC33", "U+DC34", "U+DC35", "U+DC36", "U+DC37",
         "U+DC38", "U+DC39", "U+DC3A", "U+DC3B", "U+DC3C", "U+DC3D", "U+DC3E", "U+DC3F",
         "U+DC40", "U+DC41", "U+DC42", "U+DC43", "U+DC44", "U+DC45", "U+DC46", "U+DC47",
         "U+DC48", "U+DC49", "U+DC4A", "U+DC4B", "U+DC4C", "U+DC4D", "U+DC4E", "U+DC4F",
         "U+DC50", "U+DC51", "U+DC52", "U+DC53", "U+DC54", "U+DC56", "U+DC57", "U+DC58",
         "U+DC59", "U+DC5A", "U+DC5B", "U+DC5C", "U+DC5D", "U+DC5E", "U+DC5F", "U+DC60",
         "U+DC61", "U+DC62", "U+DC63", "U+DC64", "U+DC65", "U+DC66", "U+DC67", "U+DC68",
         "U+DC69", "U+DC6A", "U+DC6B", "U+DC6C", "U+DC6D", "U+DC6E", "U+DC6F", "U+DC70",
         "U+DC71", "U+DC72", "U+DC73", "U+DC74", "U+DC75", "U+DC76", "U+DC77", "U+DC78",
         "U+DC79", "U+DC7A", "U+DC7B", "U+DC7C", "U+DC7D", "U+DC7E", "U+DC7F", "U+DC80",
         "U+DC81", "U+DC82", "U+DC83", "U+DC84", "U+DC85", "U+DC86", "U+DC87", "U+DC88",
         "U+DC89", "U+DC8A", "U+DC8B", "U+DC8C", "U+DC8D", "U+DC8E", "U+DC8F", "U+DC90",
         "U+DC91", "U+DC92", "U+DC93", "U+DC94", "U+DC95", "U+DC96", "U+DC97", "U+DC98",
         "U+DC99", "U+DC9A", "U+DC9B", "U+DC9C", "U+DC9E", "U+DC9F", "U+DCA2", "U+DCA5",
         "U+DCA6", "U+DCA9", "U+DCAA", "U+DCAB", "U+DCAC", "U+DCAE", "U+DCAF", "U+DCB0",
         "U+DCB1", "U+DCB2", "U+DCB3", "U+DCB4", "U+DCB5", "U+DCB6", "U+DCB7", "U+DCB8",
         "U+DCB9", "U+DCBB", "U+DCBD", "U+DCBE", "U+DCBF", "U+DCC0", "U+DCC1", "U+DCC2",
         "U+DCC3", "U+DCC5", "U+DCC6", "U+DCC7", "U+DCC8", "U+DCC9", "U+DCCA", "U+DCCB",
         "U+DCCC", "U+DCCD", "U+DCCE", "U+DCCF", "U+DCD0", "U+DCD1", "U+DCD2", "U+DCD3",
         "U+DCD4", "U+DCD5", "U+DCD6", "U+DCD7", "U+DCD8", "U+DCD9", "U+DCDA", "U+DCDB",
         "U+DCDC", "U+DCDD", "U+DCDE", "U+DCDF", "U+DCE0", "U+DCE1", "U+DCE2", "U+DCE3",
         "U+DCE4", "U+DCE5", "U+DCE6", "U+DCE7", "U+DCE8", "U+DCE9", "U+DCEA", "U+DCEB",
         "U+DCEC", "U+DCED", "U+DCEE", "U+DCEF", "U+DCF0", "U+DCF1", "U+DCF2", "U+DCF3",
         "U+DCF4", "U+DCF5", "U+DCF6", "U+DCF7", "U+DCF8", "U+DCF9", "U+DCFA", "U+DCFB",
         "U+DCFC", "U+DCFD", "U+DCFE", "U+DCFF", "U+DD00", "U+DD01", "U+DD02", "U+DD03",
         "U+DD04", "U+DD05", "U+DD07", "U+DD08", "U+DD09", "U+DD0A", "U+DD0D", "U+DD0E",
         "U+DD0F", "U+DD10", "U+DD11", "U+DD12", "U+DD13", "U+DD14", "U+DD16", "U+DD17",
         "U+DD18", "U+DD19", "U+DD1A", "U+DD1B", "U+DD1C", "U+DD1E", "U+DD1F", "U+DD20",
         "U+DD21", "U+DD22", "U+DD23", "U+DD24", "U+DD25", "U+DD26", "U+DD27", "U+DD28",
         "U+DD29", "U+DD2A", "U+DD2B", "U+DD2C", "U+DD2D", "U+DD2E", "U+DD2F", "U+DD30",
         "U+DD31", "U+DD32", "U+DD33", "U+DD34", "U+DD35", "U+DD36", "U+DD37", "U+DD38",
         "U+DD39", "U+DD3B", "U+DD3C", "U+DD3D", "U+DD3E", "U+DD40", "U+DD41", "U+DD42",
         "U+DD43", "U+DD44", "U+DD46", "U+DD4A", "U+DD4B", "U+DD4C", "U+DD4D", "U+DD4E",
         "U+DD4F", "U+DD50", "U+DD52", "U+DD53", "U+DD54", "U+DD55", "U+DD56", "U+DD57",
         "U+DD58", "U+DD59", "U+DD5A", "U+DD5B", "U+DD5C", "U+DD5D", "U+DD5E", "U+DD5F",
         "U+DD60", "U+DD61", "U+DD62", "U+DD63", "U+DD64", "U+DD65", "U+DD66", "U+DD67",
         "U+DD68", "U+DD69", "U+DD6A", "U+DD6B", "U+DD6C", "U+DD6D", "U+DD6E", "U+DD6F",
         "U+DD70", "U+DD71", "U+DD72", "U+DD73", "U+DD74", "U+DD75", "U+DD76", "U+DD77",
         "U+DD78", "U+DD79", "U+DD7A", "U+DD7B", "U+DD7C", "U+DD7D", "U+DD7E", "U+DD7F",
         "U+DD80", "U+DD81", "U+DD82", "U+DD83", "U+DD84", "U+DD85", "U+DD86", "U+DD87",
         "U+DD88", "U+DD89", "U+DD8A", "U+DD8B", "U+DD8C", "U+DD8D", "U+DD8E", "U+DD8F",
         "U+DD90", "U+DD91", "U+DD92", "U+DD93", "U+DD94", "U+DD95", "U+DD96", "U+DD97",
         "U+DD98", "U+DD99", "U+DD9A", "U+DD9B", "U+DD9C", "U+DD9D", "U+DD9E", "U+DD9F",
         "U+DDA0", "U+DDA1", "U+DDA2", "U+DDA3", "U+DDA4", "U+DDA5", "U+DDA6", "U+DDA7",
         "U+DDA8", "U+DDA9", "U+DDAA", "U+DDAB", "U+DDAC", "U+DDAD", "U+DDAE", "U+DDAF",
         "U+DDB0", "U+DDB1", "U+DDB2", "U+DDB3", "U+DDB4", "U+DDB5", "U+DDB6", "U+DDB7",
         "U+DDB8", "U+DDB9", "U+DDBA", "U+DDBB", "U+DDBC", "U+DDBD", "U+DDBE", "U+DDBF",
         "U+DDC0", "U+DDC1", "U+DDC2", "U+DDC3", "U+DDC4", "U+DDC5", "U+DDC6", "U+DDC7",
         "U+DDC8", "U+DDC9", "U+DDCA", "U+DDCB", "U+DDCC", "U+DDCD", "U+DDCE", "U+DDCF",
         "U+DDD0", "U+DDD1", "U+DDD2", "U+DDD3", "U+DDD4", "U+DDD5", "U+DDD6", "U+DDD7",
         "U+DDD8", "U+DDD9", "U+DDDA", "U+DDDB", "U+DDDC", "U+DDDD", "U+DDDE", "U+DDDF",
         "U+DDE0", "U+DDE1", "U+DDE2", "U+DDE3", "U+DDE4", "U+DDE5", "U+DDE6", "U+DDE7",
         "U+DDE8", "U+DDE9", "U+DDEA", "U+DDEB", "U+DDEC", "U+DDED", "U+DDEE", "U+DDEF",
         "U+DDF0", "U+DDF1", "U+DDF2", "U+DDF3", "U+DDF4", "U+DDF5", "U+DDF6", "U+DDF7",
         "U+DDF8", "U+DDF9", "U+DDFA", "U+DDFB", "U+DDFC", "U+DDFD", "U+DDFE", "U+DDFF",
         "U+DE00", "U+DE01", "U+DE02", "U+DE03", "U+DE04", "U+DE05", "U+DE06", "U+DE07",
         "U+DE08", "U+DE09", "U+DE0A", "U+DE0B", "U+DE0C", "U+DE0D", "U+DE0E", "U+DE0F",
         "U+DE10", "U+DE11", "U+DE12", "U+DE13", "U+DE14", "U+DE15", "U+DE16", "U+DE17",
         "U+DE18", "U+DE19", "U+DE1A", "U+DE1B", "U+DE1C", "U+DE1D", "U+DE1E", "U+DE1F",
         "U+DE20", "U+DE21", "U+DE22", "U+DE23", "U+DE24", "U+DE25", "U+DE26", "U+DE27",
         "U+DE28", "U+DE29", "U+DE2A", "U+DE2B", "U+DE2C", "U+DE2D", "U+DE2E", "U+DE2F",
         "U+DE30", "U+DE31", "U+DE32", "U+DE33", "U+DE34", "U+DE35", "U+DE36", "U+DE37",
         "U+DE38", "U+DE39", "U+DE3A", "U+DE3B", "U+DE3C", "U+DE3D", "U+DE3E", "U+DE3F",
         "U+DE40", "U+DE41", "U+DE42", "U+DE43", "U+DE44", "U+DE45", "U+DE46", "U+DE47",
         "U+DE48", "U+DE49", "U+DE4A", "U+DE4B", "U+DE4C", "U+DE4D", "U+DE4E", "U+DE4F",
         "U+DE50", "U+DE51", "U+DE52", "U+DE53", "U+DE54", "U+DE55", "U+DE56", "U+DE57",
         "U+DE58", "U+DE59", "U+DE5A", "U+DE5B", "U+DE5C", "U+DE5D", "U+DE5E", "U+DE5F",
         "U+DE60", "U+DE61", "U+DE62", "U+DE63", "U+DE64", "U+DE65", "U+DE66", "U+DE67",
         "U+DE68", "U+DE69", "U+DE6A", "U+DE6B", "U+DE6C", "U+DE6D", "U+DE6E", "U+DE6F",
         "U+DE70", "U+DE71", "U+DE72", "U+DE73", "U+DE74", "U+DE75", "U+DE76", "U+DE77",
         "U+DE78", "U+DE79", "U+DE7A", "U+DE7B", "U+DE7C", "U+DE7D", "U+DE7E", "U+DE7F",
         "U+DE80", "U+DE81", "U+DE82", "U+DE83", "U+DE84", "U+DE85", "U+DE86", "U+DE87",
         "U+DE88", "U+DE89", "U+DE8A", "U+DE8B", "U+DE8C", "U+DE8D", "U+DE8E", "U+DE8F",
         "U+DE90", "U+DE91", "U+DE92", "U+DE93", "U+DE94", "U+DE95", "U+DE96", "U+DE97",
         "U+DE98", "U+DE99", "U+DE9A", "U+DE9B", "U+DE9C", "U+DE9D", "U+DE9E", "U+DE9F",
         "U+DEA0", "U+DEA1", "U+DEA2", "U+DEA3", "U+DEA4", "U+DEA5", "U+DEA8", "U+DEA9",
         "U+DEAA", "U+DEAB", "U+DEAC", "U+DEAD", "U+DEAE", "U+DEAF", "U+DEB0", "U+DEB1",
         "U+DEB2", "U+DEB3", "U+DEB4", "U+DEB5", "U+DEB6", "U+DEB7", "U+DEB8", "U+DEB9",
         "U+DEBA", "U+DEBB", "U+DEBC", "U+DEBD", "U+DEBE", "U+DEBF", "U+DEC0", "U+DEC2",
         "U+DEC3", "U+DEC4", "U+DEC5", "U+DEC6", "U+DEC7", "U+DEC8", "U+DEC9", "U+DECA",
         "U+DECB", "U+DECC", "U+DECD", "U+DECE", "U+DECF", "U+DED0", "U+DED1", "U+DED2",
         "U+DED3", "U+DED4", "U+DED5", "U+DED6", "U+DED7", "U+DED8", "U+DED9", "U+DEDA",
         "U+DEDC", "U+DEDD", "U+DEDE", "U+DEDF", "U+DEE0", "U+DEE1", "U+DEE2", "U+DEE3",
         "U+DEE4", "U+DEE5", "U+DEE6", "U+DEE7", "U+DEE8", "U+DEE9", "U+DEEA", "U+DEEB",
         "U+DEEC", "U+DEED", "U+DEEE", "U+DEEF", "U+DEF0", "U+DEF1", "U+DEF2", "U+DEF3",
         "U+DEF4", "U+DEF5", "U+DEF6", "U+DEF7", "U+DEF8", "U+DEF9", "U+DEFA", "U+DEFC",
         "U+DEFD", "U+DEFE", "U+DEFF", "U+DF00", "U+DF01", "U+DF02", "U+DF03", "U+DF04",
         "U+DF05", "U+DF06", "U+DF07", "U+DF08", "U+DF09", "U+DF0A", "U+DF0B", "U+DF0C",
         "U+DF0D", "U+DF0E", "U+DF0F", "U+DF10", "U+DF11", "U+DF12", "U+DF13", "U+DF14",
         "U+DF16", "U+DF17", "U+DF18", "U+DF19", "U+DF1A", "U+DF1B", "U+DF1C", "U+DF1D",
         "U+DF1E", "U+DF1F", "U+DF20", "U+DF21", "U+DF22", "U+DF23", "U+DF24", "U+DF25",
         "U+DF26", "U+DF27", "U+DF28", "U+DF29", "U+DF2A", "U+DF2B", "U+DF2C", "U+DF2D",
         "U+DF2E", "U+DF2F", "U+DF30", "U+DF31", "U+DF32", "U+DF33", "U+DF34", "U+DF36",
         "U+DF37", "U+DF38", "U+DF39", "U+DF3A", "U+DF3B", "U+DF3C", "U+DF3D", "U+DF3E",
         "U+DF3F", "U+DF40", "U+DF41", "U+DF42", "U+DF43", "U+DF44", "U+DF45", "U+DF46",
         "U+DF47", "U+DF48", "U+DF49", "U+DF4A", "U+DF4B", "U+DF4C", "U+DF4D", "U+DF4E",
         "U+DF50", "U+DF51", "U+DF52", "U+DF53", "U+DF54", "U+DF55", "U+DF56", "U+DF57",
         "U+DF58", "U+DF59", "U+DF5A", "U+DF5B", "U+DF5C", "U+DF5D", "U+DF5E", "U+DF5F",
         "U+DF60", "U+DF61", "U+DF62", "U+DF63", "U+DF64", "U+DF65", "U+DF66", "U+DF67",
         "U+DF68", "U+DF69", "U+DF6A", "U+DF6B", "U+DF6C", "U+DF6D", "U+DF6E", "U+DF70",
         "U+DF71", "U+DF72", "U+DF73", "U+DF74", "U+DF75", "U+DF76", "U+DF77", "U+DF78",
         "U+DF79", "U+DF7A", "U+DF7B", "U+DF7C", "U+DF7D", "U+DF7E", "U+DF7F", "U+DF80",
         "U+DF81", "U+DF82", "U+DF83", "U+DF84", "U+DF85", "U+DF86", "U+DF87", "U+DF88",
         "U+DF8A", "U+DF8B", "U+DF8C", "U+DF8D", "U+DF8E", "U+DF8F", "U+DF90", "U+DF91",
         "U+DF92", "U+DF93", "U+DF94", "U+DF95", "U+DF96", "U+DF97", "U+DF98", "U+DF99",
         "U+DF9A", "U+DF9B", "U+DF9C", "U+DF9D", "U+DF9E", "U+DF9F", "U+DFA0", "U+DFA1",
         "U+DFA2", "U+DFA3", "U+DFA4", "U+DFA5", "U+DFA6", "U+DFA7", "U+DFA8", "U+DFAA",
         "U+DFAB", "U+DFAC", "U+DFAD", "U+DFAE", "U+DFAF", "U+DFB0", "U+DFB1", "U+DFB2",
         "U+DFB3", "U+DFB4", "U+DFB5", "U+DFB6", "U+DFB7", "U+DFB8", "U+DFB9", "U+DFBA",
         "U+DFBB", "U+DFBC", "U+DFBD", "U+DFBE", "U+DFBF", "U+DFC0", "U+DFC1", "U+DFC2",
         "U+DFC4", "U+DFC5", "U+DFC6", "U+DFC7", "U+DFC8", "U+DFC9", "U+DFCA", "U+DFCB" }
  @@ "U+D837" :>
       { "U+DF00", "U+DF01", "U+DF02", "U+DF03", "U+DF04", "U+DF05", "U+DF06", "U+DF07",
         "U+DF08", "U+DF09", "U+DF0B", "U+DF0C", "U+DF0D", "U+DF0E", "U+DF0F", "U+DF10",
         "U+DF11", "U+DF12", "U+DF13", "U+DF14", "U+DF15", "U+DF16", "U+DF17", "U+DF18",
         "U+DF19", "U+DF1A", "U+DF1B", "U+DF1C", "U+DF1D", "U+DF1E", "U+DF25", "U+DF26",
         "U+DF27", "U+DF28", "U+DF29", "U+DF2A" }
  @@ "U+D83A" :>
       { "U+DD00", "U+DD01", "U+DD02", "U+DD03", "U+DD04", "U+DD05", "U+DD06", "U+DD07",
         "U+DD08", "U+DD09", "U+DD0A", "U+DD0B", "U+DD0C", "U+DD0D", "U+DD0E", "U+DD0F",
         "U+DD10", "U+DD11", "U+DD12", "U+DD13", "U+DD14", "U+DD15", "U+DD16", "U+DD17",
         "U+DD18", "U+DD19", "U+DD1A", "U+DD1B", "U+DD1C", "U+DD1D", "U+DD1E", "U+DD1F",
         "U+DD20", "U+DD21", "U+DD22", "U+DD23", "U+DD24", "U+DD25", "U+DD26", "U+DD27",
         "U+DD28", "U+DD29", "U+DD2A", "U+DD2B", "U+DD2C", "U+DD2D", "U+DD2E", "U+DD2F",
         "U+DD30", "U+DD31", "U+DD32", "U+DD33", "U+DD34", "U+DD35", "U+DD36", "U+DD37",
         "U+DD38", "U+DD39", "U+DD3A", "U+DD3B", "U+DD3C", "U+DD3D", "U+DD3E", "U+DD3F",
         "U+DD40", "U+DD41", "U+DD42", "U+DD43" }
  @@ "U+D83C" :>
       { "U+DD30", "U+DD31", "U+DD32", "U+DD33", "U+DD34", "U+DD35", "U+DD36", "U+DD37",
         "U+DD38", "U+DD39", "U+DD3A", "U+DD3B", "U+DD3C", "U+DD3D", "U+DD3E", "U+DD3F",
         "U+DD40", "U+DD41", "U+DD42", "U+DD43", "U+DD44", "U+DD45", "U+DD46", "U+DD47",
         "U+DD48", "U+DD49", "U+DD50", "U+DD51", "U+DD52", "U+DD53", "U+DD54", "U+DD55",
         "U+DD56", "U+DD57", "U+DD58", "U+DD59", "U+DD5A", "U+DD5B", "U+DD5C", "U+DD5D",
         "U+DD5E", "U+DD5F", "U+DD60", "U+DD61", "U+DD62", "U+DD63", "U+DD64", "U+DD65",
         "U+DD66", "U+DD67", "U+DD68", "U+DD69", "U+DD70", "U+DD71", "U+DD72", "U+DD73",
         "U+DD74", "U+DD75", "U+DD76", "U+DD77", "U+DD78", "U+DD79", "U+DD7A", "U+DD7B",
         "U+DD7C", "U+DD7D", "U+DD7E", "U+DD7F", "U+DD80", "U+DD81", "U+DD82", "U+DD83",
         "U+DD84", "U+DD85", "U+DD86", "U+DD87", "U+DD88", "U+DD89" }

\* code units with the property Case_Ignorable
CaseIgnorable ==
  { "'", ".", ":", "^", "U+0060", "¨", "­", "¯",
    "´", "·", "¸", "ʰ", "ʱ", "ʲ", "ʳ", "ʴ",
    "ʵ", "ʶ", "ʷ", "ʸ", "ʹ", "ʺ", "ʻ", "ʼ",
    "ʽ", "ʾ", "ʿ", "ˀ", "ˁ", "˂", "˃", "˄",
    "˅", "ˆ", "ˇ", "ˈ", "ˉ", "ˊ", "ˋ", "ˌ",
    "ˍ", "ˎ", "ˏ", "ː", "ˑ", "˒", "˓", "˔",
    "˕", "˖", "˗", "˘", "˙", "˚", "˛", "˜",
    "˝", "˞", "˟", "ˠ", "ˡ", "ˢ", "ˣ", "ˤ",
    "˥", "˦", "˧", "˨", "˩", "˪", "˫", "ˬ",
    "˭", "ˮ", "˯", "˰", "˱", "˲", "˳", "˴",
    "˵", "˶", "˷", "˸", "˹", "˺", "˻", "˼",
    "˽", "˾", "˿", "U+0300", "U+0301", "U+0302", "U+0303", "U+0304",
    "U+0305", "U+0306", "U+0307", "U+0308", "U+0309", "U+030A", "U+030B", "U+030C",
    "U+030D", "U+030E", "U+030F", "U+0310", "U+0311", "U+0312", "U+0313", "U+0314",
    "U+0315", "U+0316", "U+0317", "U+0318", "U+0319", "U+031A", "U+031B", "U+031C",
    "U+031D", "U+031E", "U+031F", "U+0320", "U+0321", "U+0322", "U+0323", "U+0324",
    "U+0325", "U+0326", "U+0327", "U+0328", "U+0329", "U+032A", "U+032B", "U+032C",
    "U+032D", "U+032E", "U+032F", "U+0330", "U+0331", "U+0332", "U+0333", "U+0334",
    "U+0335", "U+0336", "U+0337", "U+0338", "U+0339", "U+033A", "U+033B", "U+033C",
    "U+033D", "U+033E", "U+033F", "U+0340", "U+0341", "U+0342", "U+0343", "U+0344",
    "U+0345", "U+0346", "U+0347", "U+0348", "U+0349", "U+034A", "U+034B", "U+034C",
    "U+034D", "U+034E", "U+034F", "U+0350", "U+0351", "U+0352", "U+0353", "U+0354",
    "U+0355", "U+0356", "U+0357", "U+0358", "U+0359", "U+035A", "U+035B", "U+035C",
    "U+035D", "U+035E", "U+035F", "U+0360", "U+0361", "U+0362", "U+0363", "U+0364",
    "U+0365", "U+0366", "U+0367", "U+0368", "U+0369", "U+036A", "U+036B", "U+036C",
    "U+036D", "U+036E", "U+036F", "U+0374", "U+0375", "U+037A", "΄", "΅",
    "·", "҃", "҄", "҅", "҆", "҇", "҈", "҉",
    "U+0559", "U+055F", "֑", "֒", "֓", "֔", "֕", "֖",
    "֗", "֘", "֙", "֚", "֛", "֜", "֝", "֞",
    "֟", "֠", "֡", "֢", "֣", "֤", "֥", "֦",
    "֧", "֨", "֩", "֪", "֫", "֬", "֭", "֮",
    "֯", "ְ", "ֱ", "ֲ", "ֳ", "ִ", "ֵ", "ֶ",
    "ַ", "ָ", "ֹ", "ֺ", "ֻ", "ּ", "ֽ", "ֿ",
    "ׁ", "ׂ", "ׄ", "ׅ", "ׇ", "״", "U+0600", "U+0601",
    "U+0602", "U+0603", "U+0604", "U+0605", "U+0610", "U+0611", "U+0612", "U+0613",
    "U+0614", "U+0615", "U+0616", "U+0617", "U+0618", "U+0619", "U+061A", "U+061C",
    "U+0640", "U+064B", "U+064C", "U+064D", "U+064E", "U+064F", "U+0650", "U+0651",
    "U+0652", "U+0653", "U+0654", "U+0655", "U+0656", "U+0657", "U+0658", "U+0659",
    "U+065A", "U+065B", "U+065C", "U+065D", "U+065E", "U+065F", "U+0670", "ۖ",
    "ۗ", "ۘ", "ۙ", "ۚ", "ۛ", "ۜ", "۝", "۟",
    "۠", "ۡ", "ۢ", "ۣ", "ۤ", "ۥ", "ۦ", "ۧ",
    "ۨ", "۪", "۫", "۬", "ۭ", "U+070F", "U+0711", "U+0730",
    "U+0731", "U+0732", "U+0733", "U+0734", "U+0735", "U+0736", "U+0737", "U+0738",
    "U+0739", "U+073A", "U+073B", "U+073C", "U+073D", "U+073E", "U+073F", "U+0740",
    "U+0741", "U+0742", "U+0743", "U+0744", "U+0745", "U+0746", "U+0747", "U+0748",
    "U+0749", "U+074A", "ަ", "ާ", "ި", "ީ", "ު", "ޫ",
    "ެ", "ޭ", "ޮ", "ޯ", "ް", "߫", "߬", "߭",
    "߮", "߯", "߰", "߱", "߲", "߳", "ߴ", "ߵ",
    "ߺ", "߽", "U+0816", "U+0817", "U+0818", "U+0819", "U+081A", "U+081B",
    "U+081C", "U+081D", "U+081E", "U+081F", "U+0820", "U+0821", "U+0822", "U+0823",
    "U+0824", "U+0825", "U+0826", "U+0827", "U+0828", "U+0829", "U+082A", "U+082B",
    "U+082C", "U+082D", "U+0859", "U+085A", "U+085B", "࢈", "࢐", "࢑",
    "ࢗ", "࢘", "࢙", "࢚", "࢛", "࢜", "࢝", "࢞",
    "࢟", "ࣉ", "࣊", "࣋", "࣌", "࣍", "࣎", "࣏",
    "࣐", "࣑", "࣒", "࣓", "ࣔ", "ࣕ", "ࣖ", "ࣗ",
    "ࣘ", "ࣙ", "ࣚ", "ࣛ", "ࣜ", "ࣝ", "ࣞ", "ࣟ",
    "࣠", "࣡", "࣢", "ࣣ", "ࣤ", "ࣥ", "ࣦ", "ࣧ",
    "ࣨ", "ࣩ", "࣪", "࣫", "࣬", "࣭", "࣮", "࣯",
    "ࣰ", "ࣱ", "ࣲ", "ࣳ", "ࣴ", "ࣵ", "ࣶ", "ࣷ",
    "ࣸ", "ࣹ", "ࣺ", "ࣻ", "ࣼ", "ࣽ", "ࣾ", "ࣿ",
    "U+0900", "U+0901", "U+0902", "U+093A", "U+093C", "U+0941", "U+0942", "U+0943",
    "U+0944", "U+0945", "U+0946", "U+0947", "U+0948", "U+094D", "U+0951", "U+0952",
    "U+0953", "U+0954", "U+0955", "U+0956", "U+0957", "U+0962", "U+0963", "U+0971",
    "ঁ", "়", "ু", "ূ", "ৃ", "ৄ", "্", "ৢ",
    "ৣ", "৾", "U+0A01", "U+0A02", "U+0A3C", "U+0A41", "U+0A42", "U+0A47",
    "U+0A48", "U+0A4B", "U+0A4C", "U+0A4D", "U+0A51", "U+0A70", "U+0A71", "U+0A75",
    "ઁ", "ં", "઼", "ુ", "ૂ", "ૃ", "ૄ", "ૅ",
    "ે", "ૈ", "્", "ૢ", "ૣ", "ૺ", "ૻ", "ૼ",
    "૽", "૾", "૿", "U+0B01", "U+0B3C", "U+0B3F", "U+0B41", "U+0B42",
    "U+0B43", "U+0B44", "U+0B4D", "U+0B55", "U+0B56", "U+0B62", "U+0B63", "ஂ",
    "ீ", "்", "U+0C00", "U+0C04", "U+0C3C", "U+0C3E", "U+0C3F", "U+0C40",
    "U+0C46", "U+0C47", "U+0C48", "U+0C4A", "U+0C4B", "U+0C4C", "U+0C4D", "U+0C55",
    "U+0C56", "U+0C62", "U+0C63", "ಁ", "಼", "ಿ", "ೆ", "ೌ",
    "್", "ೢ", "ೣ", "U+0D00", "U+0D01", "U+0D3B", "U+0D3C", "U+0D41",
    "U+0D42", "U+0D43", "U+0D44", "U+0D4D", "U+0D62", "U+0D63", "ඁ", "්",
    "ි", "ී", "ු", "ූ", "U+0E31", "U+0E34", "U+0E35", "U+0E36",
    "U+0E37", "U+0E38", "U+0E39", "U+0E3A", "U+0E46", "U+0E47", "U+0E48", "U+0E49",
    "U+0E4A", "U+0E4B", "U+0E4C", "U+0E4D", "U+0E4E", "ັ", "ິ", "ີ",
    "ຶ", "ື", "ຸ", "ູ", "຺", "ົ", "ຼ", "ໆ",
    "່", "້", "໊", "໋", "໌", "ໍ", "໎", "U+0F18",
    "U+0F19", "U+0F35", "U+0F37", "U+0F39", "U+0F71", "U+0F72", "U+0F73", "U+0F74",
    "U+0F75", "U+0F76", "U+0F77", "U+0F78", "U+0F79", "U+0F7A", "U+0F7B", "U+0F7C",
    "U+0F7D", "U+0F7E", "ྀ", "ཱྀ", "ྂ", "ྃ", "྄", "྆",
    "྇", "ྍ", "ྎ", "ྏ", "ྐ", "ྑ", "ྒ", "ྒྷ",
    "ྔ", "ྕ", "ྖ", "ྗ", "ྙ", "ྚ", "ྛ", "ྜ",
    "ྜྷ", "ྞ", "ྟ", "ྠ", "ྡ", "ྡྷ", "ྣ", "ྤ",
    "ྥ", "ྦ", "ྦྷ", "ྨ", "ྩ", "ྪ", "ྫ", "ྫྷ",
    "ྭ", "ྮ", "ྯ", "ྰ", "ྱ", "ྲ", "ླ", "ྴ",
    "ྵ", "ྶ", "ྷ", "ྸ", "ྐྵ", "ྺ", "ྻ", "ྼ",
    "࿆", "U+102D", "U+102E", "U+102F", "U+1030", "U+1032", "U+1033", "U+1034",
    "U+1035", "U+1036", "U+1037", "U+1039", "U+103A", "U+103D", "U+103E", "U+1058",
    "U+1059", "U+105E", "U+105F", "U+1060", "U+1071", "U+1072", "U+1073", "U+1074",
    "ႂ", "ႅ", "ႆ", "ႍ", "ႝ", "ჼ", "U+135D", "U+135E",
    "U+135F", "U+1712", "U+1713", "U+1714", "U+1732", "U+1733", "U+1752", "U+1753",
    "U+1772", "U+1773", "឴", "឵", "ិ", "ី", "ឹ", "ឺ",
    "ុ", "ូ", "ួ", "ំ", "៉", "៊", "់", "៌",
    "៍", "៎", "៏", "័", "៑", "្", "៓", "ៗ",
    "៝", "U+180B", "U+180C", "U+180D", "U+180E", "U+180F", "U+1843", "ᢅ",
    "ᢆ", "ᢩ", "U+1920", "U+1921", "U+1922", "U+1927", "U+1928", "U+1932",
    "U+1939", "U+193A", "U+193B", "U+1A17", "U+1A18", "U+1A1B", "U+1A56", "U+1A58",
    "U+1A59", "U+1A5A", "U+1A5B", "U+1A5C", "U+1A5D", "U+1A5E", "U+1A60", "U+1A62",
    "U+1A65", "U+1A66", "U+1A67", "U+1A68", "U+1A69", "U+1A6A", "U+1A6B", "U+1A6C",
    "U+1A73", "U+1A74", "U+1A75", "U+1A76", "U+1A77", "U+1A78", "U+1A79", "U+1A7A",
    "U+1A7B", "U+1A7C", "U+1A7F", "ᪧ", "᪰", "᪱", "᪲", "᪳",
    "᪴", "᪵", "᪶", "᪷", "᪸", "᪹", "᪺", "᪻",
    "᪼", "᪽", "᪾", "ᪿ", "ᫀ", "᫁", "᫂", "᫃",
    "᫄", "᫅", "᫆", "᫇", "᫈", "᫉", "᫊", "᫋",
    "ᫌ", "ᫍ", "ᫎ", "᫏", "᫐", "᫑", "᫒", "᫓",
    "᫔", "᫕", "᫖", "᫗", "᫘", "᫙", "᫚", "᫛",
    "᫜", "᫝", "᫠", "᫡", "᫢", "᫣", "᫤", "᫥",
    "᫦", "᫧", "᫨", "᫩", "᫪", "᫫", "U+1B00", "U+1B01",
    "U+1B02", "U+1B03", "U+1B34", "U+1B36", "U+1B37", "U+1B38", "U+1B39", "U+1B3A",
    "U+1B3C", "U+1B42", "U+1B6B", "U+1B6C", "U+1B6D", "U+1B6E", "U+1B6F", "U+1B70",
    "U+1B71", "U+1B72", "U+1B73", "ᮀ", "ᮁ", "ᮢ", "ᮣ", "ᮤ",
    "ᮥ", "ᮨ", "ᮩ", "᮫", "ᮬ", "ᮭ", "᯦", "ᯨ",
    "ᯩ", "ᯭ", "ᯯ", "ᯰ", "ᯱ", "U+1C2C", "U+1C2D", "U+1C2E",
    "U+1C2F", "U+1C30", "U+1C31", "U+1C32", "U+1C33", "U+1C36", "U+1C37", "U+1C78",
    "U+1C79", "U+1C7A", "U+1C7B", "U+1C7C", "U+1C7D", "᳐", "᳑", "᳒",
    "᳔", "᳕", "᳖", "᳗", "᳘", "᳙", "᳚", "᳛",
    "᳜", "᳝", "᳞", "᳟", "᳠", "᳢", "᳣", "᳤",
    "᳥", "᳦", "᳧", "᳨", "᳭", "᳴", "᳸", "᳹",
    "U+1D2C", "U+1D2D", "U+1D2E", "U+1D2F", "U+1D30", "U+1D31", "U+1D32", "U+1D33",
    "U+1D34", "U+1D35", "U+1D36", "U+1D37", "U+1D38", "U+1D39", "U+1D3A", "U+1D3B",
    "U+1D3C", "U+1D3D", "U+1D3E", "U+1D3F", "U+1D40", "U+1D41", "U+1D42", "U+1D43",
    "U+1D44", "U+1D45", "U+1D46", "U+1D47", "U+1D48", "U+1D49", "U+1D4A", "U+1D4B",
    "U+1D4C", "U+1D4D", "U+1D4E", "U+1D4F", "U+1D50", "U+1D51", "U+1D52", "U+1D53",
    "U+1D54", "U+1D55", "U+1D56", "U+1D57", "U+1D58", "U+1D59", "U+1D5A", "U+1D5B",
    "U+1D5C", "U+1D5D", "U+1D5E", "U+1D5F", "U+1D60", "U+1D61", "U+1D62", "U+1D63",
    "U+1D64", "U+1D65", "U+1D66", "U+1D67", "U+1D68", "U+1D69", "U+1D6A", "U+1D78",
    "ᶛ", "ᶜ", "ᶝ", "ᶞ", "ᶟ", "ᶠ", "ᶡ", "ᶢ",
    "ᶣ", "ᶤ", "ᶥ", "ᶦ", "ᶧ", "ᶨ", "ᶩ", "ᶪ",
    "ᶫ", "ᶬ", "ᶭ", "ᶮ", "ᶯ", "ᶰ", "ᶱ", "ᶲ",
    "ᶳ", "ᶴ", "ᶵ", "ᶶ", "ᶷ", "ᶸ", "ᶹ", "ᶺ",
    "ᶻ", "ᶼ", "ᶽ", "ᶾ", "ᶿ", "᷀", "᷁", "᷂",
    "᷃", "᷄", "᷅", "᷆", "᷇", "᷈", "᷉", "᷊",
    "᷋", "᷌", "᷍", "᷎", "᷏", "᷐", "᷑", "᷒",
    "ᷓ", "ᷔ", "ᷕ", "ᷖ", "ᷗ", "ᷘ", "ᷙ", "ᷚ",
    "ᷛ", "ᷜ", "ᷝ", "ᷞ", "ᷟ", "ᷠ", "ᷡ", "ᷢ",
    "ᷣ", "ᷤ", "ᷥ", "ᷦ", "ᷧ", "ᷨ", "ᷩ", "ᷪ",
    "ᷫ", "ᷬ", "ᷭ", "ᷮ", "ᷯ", "ᷰ", "ᷱ", "ᷲ",
    "ᷳ", "ᷴ", "᷵", "᷶", "᷷", "᷸", "᷹", "᷺",
    "᷻", "᷼", "᷽", "᷾", "᷿", "᾽", "᾿", "῀",
    "῁", "῍", "῎", "῏", "῝", "῞", "῟", "῭",
    "΅", "`", "´", "῾", "U+200B", "U+200C", "U+200D", "U+200E",
    "U+200F", "U+2018", "U+2019", "U+2024", "U+2027", "U+202A", "U+202B", "U+202C",
    "U+202D", "U+202E", "U+2060", "U+2061", "U+2062", "U+2063", "U+2064", "U+2066",
    "U+2067", "U+2068", "U+2069", "U+206A", "U+206B", "U+206C", "U+206D", "U+206E",
    "U+206F", "U+2071", "U+207F", "ₐ", "ₑ", "ₒ", "ₓ", "ₔ",
    "ₕ", "ₖ", "ₗ", "ₘ", "ₙ", "ₚ", "ₛ", "ₜ",
    "⃐", "⃑", "⃒", "⃓", "⃔", "⃕", "⃖", "⃗",
    "⃘", "⃙", "⃚", "⃛", "⃜", "⃝", "⃞", "⃟",
    "⃠", "⃡", "⃢", "⃣", "⃤", "⃥", "⃦", "⃧",
    "⃨", "⃩", "⃪", "⃫", "⃬", "⃭", "⃮", "⃯",
    "⃰", "U+2C7C", "U+2C7D", "⳯", "⳰", "⳱", "U+2D6F", "U+2D7F",
    "ⷠ", "ⷡ", "ⷢ", "ⷣ", "ⷤ", "ⷥ", "ⷦ", "ⷧ",
    "ⷨ", "ⷩ", "ⷪ", "ⷫ", "ⷬ", "ⷭ", "ⷮ", "ⷯ",
    "ⷰ", "ⷱ", "ⷲ", "ⷳ", "ⷴ", "ⷵ", "ⷶ", "ⷷ",
    "ⷸ", "ⷹ", "ⷺ", "ⷻ", "ⷼ", "ⷽ", "ⷾ", "ⷿ",
    "U+2E2F", "U+3005", "U+302A", "U+302B", "U+302C", "U+302D", "U+3031", "U+3032",
    "U+3033", "U+3034", "U+3035", "U+303B", "゙", "゚", "゛", "゜",
    "ゝ", "ゞ", "ー", "ヽ", "ヾ", "U+A015", "ꓸ", "ꓹ",
    "ꓺ", "ꓻ", "ꓼ", "ꓽ", "U+A60C", "U+A66F", "U+A670", "U+A671",
    "U+A672", "U+A674", "U+A675", "U+A676", "U+A677", "U+A678", "U+A679", "U+A67A",
    "U+A67B", "U+A67C", "U+A67D", "U+A67F", "ꚜ", "ꚝ", "ꚞ", "ꚟ",
    "꛰", "꛱", "U+A700", "U+A701", "U+A702", "U+A703", "U+A704", "U+A705",
    "U+A706", "U+A707", "U+A708", "U+A709", "U+A70A", "U+A70B", "U+A70C", "U+A70D",
    "U+A70E", "U+A70F", "U+A710", "U+A711", "U+A712", "U+A713", "U+A714", "U+A715",
    "U+A716", "U+A717", "U+A718", "U+A719", "U+A71A", "U+A71B", "U+A71C", "U+A71D",
    "U+A71E", "U+A71F", "U+A720", "U+A721", "U+A770", "ꞈ", "꞉", "꞊",
    "꟱", "ꟲ", "ꟳ", "ꟴ", "ꟸ", "ꟹ", "U+A802", "U+A806",
    "U+A80B", "U+A825", "U+A826", "U+A82C", "꣄", "ꣅ", "꣠", "꣡",
    "꣢", "꣣", "꣤", "꣥", "꣦", "꣧", "꣨", "꣩",
    "꣪", "꣫", "꣬", "꣭", "꣮", "꣯", "꣰", "꣱",
    "ꣿ", "U+A926", "U+A927", "U+A928", "U+A929", "U+A92A", "U+A92B", "U+A92C",
    "U+A92D", "U+A947", "U+A948", "U+A949", "U+A94A", "U+A94B", "U+A94C", "U+A94D",
    "U+A94E", "U+A94F", "U+A950", "U+A951", "ꦀ", "ꦁ", "ꦂ", "꦳",
    "ꦶ", "ꦷ", "ꦸ", "ꦹ", "ꦼ", "ꦽ", "ꧏ", "ꧥ",
    "ꧦ", "U+AA29", "U+AA2A", "U+AA2B", "U+AA2C", "U+AA2D", "U+AA2E", "U+AA31",
    "U+AA32", "U+AA35", "U+AA36", "U+AA43", "U+AA4C", "U+AA70", "U+AA7C", "ꪰ",
    "ꪲ", "ꪳ", "ꪴ", "ꪷ", "ꪸ", "ꪾ", "꪿", "꫁",
    "ꫝ", "ꫬ", "ꫭ", "ꫳ", "ꫴ", "꫶", "U+AB5B", "U+AB5C",
    "U+AB5D", "U+AB5E", "U+AB5F", "U+AB69", "U+AB6A", "U+AB6B", "ꯥ", "ꯨ",
    "꯭", "U+FB1E", "﮲", "﮳", "﮴", "﮵", "﮶", "﮷",
    "﮸", "﮹", "﮺", "﮻", "﮼", "﮽", "﮾", "﮿",
    "﯀", "﯁", "﯂", "U+FE00", "U+FE01", "U+FE02", "U+FE03", "U+FE04",
    "U+FE05", "U+FE06", "U+FE07", "U+FE08", "U+FE09", "U+FE0A", "U+FE0B", "U+FE0C",
    "U+FE0D", "U+FE0E", "U+FE0F", "U+FE13", "U+FE20", "U+FE21", "U+FE22", "U+FE23",
    "U+FE24", "U+FE25", "U+FE26", "U+FE27", "U+FE28", "U+FE29", "U+FE2A", "U+FE2B",
    "U+FE2C", "U+FE2D", "U+FE2E", "U+FE2F", "U+FE52", "U+FE55", "﻿", "U+FF07",
    "U+FF0E", "U+FF1A", "U+FF3E", "U+FF40", "U+FF70", "ﾞ", "ﾟ", "￣",
    "￹", "￺", "￻" }

\* the characters beyond U+FFFF with Case_Ignorable: lead unit to trail units
SupplementaryCaseIgnorable ==
     "U+D800" :>
       { "U+DDFD", "U+DEE0", "U+DF76", "U+DF77", "U+DF78", "U+DF79", "U+DF7A" }
  @@ "U+D801" :>
       { "U+DF80", "U+DF81", "U+DF82", "U+DF83", "U+DF84", "U+DF85", "U+DF87", "U+DF88",
         "U+DF89", "U+DF8A", "U+DF8B", "U+DF8C", "U+DF8D", "U+DF8E", "U+DF8F", "U+DF90",
         "U+DF91", "U+DF92", "U+DF93", "U+DF94", "U+DF95", "U+DF96", "U+DF97", "U+DF98",
         "U+DF99", "U+DF9A", "U+DF9B", "U+DF9C", "U+DF9D", "U+DF9E", "U+DF9F", "U+DFA0",
         "U+DFA1", "U+DFA2", "U+DFA3", "U+DFA4", "U+DFA5", "U+DFA6", "U+DFA7", "U+DFA8",
         "U+DFA9", "U+DFAA", "U+DFAB", "U+DFAC", "U+DFAD", "U+DFAE", "U+DFAF", "U+DFB0",
         "U+DFB2", "U+DFB3", "U+DFB4", "U+DFB5", "U+DFB6", "U+DFB7", "U+DFB8", "U+DFB9",
         "U+DFBA" }
  @@ "U+D802" :>
       { "U+DE01", "U+DE02", "U+DE03", "U+DE05", "U+DE06", "U+DE0C", "U+DE0D", "U+DE0E",
         "U+DE0F", "U+DE38", "U+DE39", "U+DE3A", "U+DE3F", "U+DEE5", "U+DEE6" }
  @@ "U+D803" :>
       { "U+DD24", "U+DD25", "U+DD26", "U+DD27", "U+DD4E", "U+DD69", "U+DD6A", "U+DD6B",
         "U+DD6C", "U+DD6D", "U+DD6F", "U+DEAB", "U+DEAC", "U+DEC5", "U+DEFA", "U+DEFB",
         "U+DEFC", "U+DEFD", "U+DEFE", "U+DEFF", "U+DF46", "U+DF47", "U+DF48", "U+DF49",
         "U+DF4A", "U+DF4B", "U+DF4C", "U+DF4D", "U+DF4E", "U+DF4F", "U+DF50", "U+DF82",
         "U+DF83", "U+DF84", "U+DF85" }
  @@ "U+D804" :>
       { "U+DC01", "U+DC38", "U+DC39", "U+DC3A", "U+DC3B", "U+DC3C", "U+DC3D", "U+DC3E",
         "U+DC3F", "U+DC40", "U+DC41", "U+DC42", "U+DC43", "U+DC44", "U+DC45", "U+DC46",
         "U+DC70", "U+DC73", "U+DC74", "U+DC7F", "U+DC80", "U+DC81", "U+DCB3", "U+DCB4",
         "U+DCB5", "U+DCB6", "U+DCB9", "U+DCBA", "U+DCBD", "U+DCC2", "U+DCCD", "U+DD00",
         "U+DD01", "U+DD02", "U+DD27", "U+DD28", "U+DD29", "U+DD2A", "U+DD2B", "U+DD2D",
         "U+DD2E", "U+DD2F", "U+DD30", "U+DD31", "U+DD32", "U+DD33", "U+DD34", "U+DD73",
         "U+DD80", "U+DD81", "U+DDB6", "U+DDB7", "U+DDB8", "U+DDB9", "U+DDBA", "U+DDBB",
         "U+DDBC", "U+DDBD", "U+DDBE", "U+DDC9", "U+DDCA", "U+DDCB", "U+DDCC", "U+DDCF",
         "U+DE2F", "U+DE30", "U+DE31", "U+DE34", "U+DE36", "U+DE37", "U+DE3E", "U+DE41",
         "U+DEDF", "U+DEE3", "U+DEE4", "U+DEE5", "U+DEE6", "U+DEE7", "U+DEE8", "U+DEE9",
         "U+DEEA", "U+DF00", "U+DF01", "U+DF3B", "U+DF3C", "U+DF40", "U+DF66", "U+DF67",
         "U+DF68", "U+DF69", "U+DF6A", "U+DF6B", "U+DF6C", "U+DF70", "U+DF71", "U+DF72",
         "U+DF73", "U+DF74", "U+DFBB", "U+DFBC", "U+DFBD", "U+DFBE", "U+DFBF", "U+DFC0",
         "U+DFCE", "U+DFD0", "U+DFD2", "U+DFE1", "U+DFE2" }
  @@ "U+D805" :>
       { "U+DC38", "U+DC39", "U+DC3A", "U+DC3B", "U+DC3C", "U+DC3D", "U+DC3E", "U+DC3F",
         "U+DC42", "U+DC43", "U+DC44", "U+DC46", "U+DC5E", "U+DCB3", "U+DCB4", "U+DCB5",
         "U+DCB6", "U+DCB7", "U+DCB8", "U+DCBA", "U+DCBF", "U+DCC0", "U+DCC2", "U+DCC3",
         "U+DDB2", "U+DDB3", "U+DDB4", "U+DDB5", "U+DDBC", "U+DDBD", "U+DDBF", "U+DDC0",
         "U+DDDC", "U+DDDD", "U+DE33", "U+DE34", "U+DE35", "U+DE36", "U+DE37", "U+DE38",
         "U+DE39", "U+DE3A", "U+DE3D", "U+DE3F", "U+DE40", "U+DEAB", "U+DEAD", "U+DEB0",
         "U+DEB1", "U+DEB2", "U+DEB3", "U+DEB4", "U+DEB5", "U+DEB7", "U+DF1D", "U+DF1F",
         "U+DF22", "U+DF23", "U+DF24", "U+DF25", "U+DF27", "U+DF28", "U+DF29", "U+DF2A",
         "U+DF2B" }
  @@ "U+D806" :>
       { "U+DC2F", "U+DC30", "U+DC31", "U+DC32", "U+DC33", "U+DC34", "U+DC35", "U+DC36",
         "U+DC37", "U+DC39", "U+DC3A", "U+DD3B", "U+DD3C", "U+DD3E", "U+DD43", "U+DDD4",
         "U+DDD5", "U+DDD6", "U+DDD7", "U+DDDA", "U+DDDB", "U+DDE0", "U+DE01", "U+DE02",
         "U+DE03", "U+DE04", "U+DE05", "U+DE06", "U+DE07", "U+DE08", "U+DE09", "U+DE0A",
         "U+DE33", "U+DE34", "U+DE35", "U+DE36", "U+DE37", "U+DE38", "U+DE3B", "U+DE3C",
         "U+DE3D", "U+DE3E", "U+DE47", "U+DE51", "U+DE52", "U+DE53", "U+DE54", "U+DE55",
         "U+DE56", "U+DE59", "U+DE5A", "U+DE5B", "U+DE8A", "U+DE8B", "U+DE8C", "U+DE8D",
         "U+DE8E", "U+DE8F", "U+DE90", "U+DE91", "U+DE92", "U+DE93", "U+DE94", "U+DE95",
         "U+DE96", "U+DE98", "U+DE99", "U+DF60", "U+DF62", "U+DF63", "U+DF64", "U+DF66" }
  @@ "U+D807" :>
       { "U+DC30", "U+DC31", "U+DC32", "U+DC33", "U+DC34", "U+DC35", "U+DC36", "U+DC38",
         "U+DC39", "U+DC3A", "U+DC3B", "U+DC3C", "U+DC3D", "U+DC3F", "U+DC92", "U+DC93",
         "U+DC94", "U+DC95", "U+DC96", "U+DC97", "U+DC98", "U+DC99", "U+DC9A", "U+DC9B",
         "U+DC9C", "U+DC9D", "U+DC9E", "U+DC9F", "U+DCA0", "U+DCA1", "U+DCA2", "U+DCA3",
         "U+DCA4", "U+DCA5", "U+DCA6", "U+DCA7", "U+DCAA", "U+DCAB", "U+DCAC", "U+DCAD",
         "U+DCAE", "U+DCAF", "U+DCB0", "U+DCB2", "U+DCB3", "U+DCB5", "U+DCB6", "U+DD31",
         "U+DD32", "U+DD33", "U+DD34", "U+DD35", "U+DD36", "U+DD3A", "U+DD3C", "U+DD3D",
         "U+DD3F", "U+DD40", "U+DD41", "U+DD42", "U+DD43", "U+DD44", "U+DD45", "U+DD47",
         "U+DD90", "U+DD91", "U+DD95", "U+DD97", "U+DDD9", "U+DEF3", "U+DEF4", "U+DF00",
         "U+DF01", "U+DF36", "U+DF37", "U+DF38", "U+DF39", "U+DF3A", "U+DF40", "U+DF42",
         "U+DF5A" }
  @@ "U+D80D" :>
       { "U+DC30", "U+DC31", "U+DC32", "U+DC33", "U+DC34", "U+DC35", "U+DC36", "U+DC37",
         "U+DC38", "U+DC39", "U+DC3A", "U+DC3B", "U+DC3C", "U+DC3D", "U+DC3E", "U+DC3F",
         "U+DC40", "U+DC47", "U+DC48", "U+DC49", "U+DC4A", "U+DC4B", "U+DC4C", "U+DC4D",
         "U+DC4E", "U+DC4F", "U+DC50", "U+DC51", "U+DC52", "U+DC53", "U+DC54", "U+DC55" }
  @@ "U+D818" :>
       { "U+DD1E", "U+DD1F", "U+DD20", "U+DD21", "U+DD22", "U+DD23", "U+DD24", "U+DD25",
         "U+DD26", "U+DD27", "U+DD28", "U+DD29", "U+DD2D", "U+DD2E", "U+DD2F" }
  @@ "U+D81A" :>
       { "U+DEF0", "U+DEF1", "U+DEF2", "U+DEF3", "U+DEF4", "U+DF30", "U+DF31", "U+DF32",
         "U+DF33", "U+DF34", "U+DF35", "U+DF36", "U+DF40", "U+DF41", "U+DF42", "U+DF43" }
  @@ "U+D81B" :>
       { "U+DD40", "U+DD41", "U+DD42", "U+DD6B", "U+DD6C", "U+DF4F", "U+DF8F", "U+DF90",
         "U+DF91", "U+DF92", "U+DF93", "U+DF94", "U+DF95", "U+DF96", "U+DF97", "U+DF98",
         "U+DF99", "U+DF9A", "U+DF9B", "U+DF9C", "U+DF9D", "U+DF9E", "U+DF9F", "U+DFE0",
         "U+DFE1", "U+DFE3", "U+DFE4", "U+DFF2", "U+DFF3" }
  @@ "U+D82B" :>
       { "U+DFF0", "U+DFF1", "U+DFF2", "U+DFF3", "U+DFF5", "U+DFF6", "U+DFF7", "U+DFF8",
         "U+DFF9", "U+DFFA", "U+DFFB", "U+DFFD", "U+DFFE" }
  @@ "U+D82F" :>
       { "U+DC9D", "U+DC9E", "U+DCA0", "U+DCA1", "U+DCA2", "U+DCA3" }
  @@ "U+D833" :>
       { "U+DF00", "U+DF01", "U+DF02", "U+DF03", "U+DF04", "U+DF05", "U+DF06", "U+DF07",
         "U+DF08", "U+DF09", "U+DF0A", "U+DF0B", "U+DF0C", "U+DF0D", "U+DF0E", "U+DF0F",
         "U+DF10", "U+DF11", "U+DF12", "U+DF13", "U+DF14", "U+DF15", "U+DF16", "U+DF17",
         "U+DF18", "U+DF19", "U+DF1A", "U+DF1B", "U+DF1C", "U+DF1D", "U+DF1E", "U+DF1F",
         "U+DF20", "U+DF21", "U+DF22", "U+DF23", "U+DF24", "U+DF25", "U+DF26", "U+DF27",
         "U+DF28", "U+DF29", "U+DF2A", "U+DF2B", "U+DF2C", "U+DF2D", "U+DF30", "U+DF31",
         "U+DF32", "U+DF33", "U+DF34", "U+DF35", "U+DF36", "U+DF37", "U+DF38", "U+DF39",
         "U+DF3A", "U+DF3B", "U+DF3C", "U+DF3D", "U+DF3E", "U+DF3F", "U+DF40", "U+DF41",
         "U+DF42", "U+DF43", "U+DF44", "U+DF45", "U+DF46" }
  @@ "U+D834" :>
       { "U+DD67", "U+DD68", "U+DD69", "U+DD73", "U+DD74", "U+DD75", "U+DD76", "U+DD77",
         "U+DD78", "U+DD79", "U+DD7A", "U+DD7B", "U+DD7C", "U+DD7D", "U+DD7E", "U+DD7F",
         "U+DD80", "U+DD81", "U+DD82", "U+DD85", "U+DD86", "U+DD87", "U+DD88", "U+DD89",
         "U+DD8A", "U+DD8B", "U+DDAA", "U+DDAB", "U+DDAC", "U+DDAD", "U+DE42", "U+DE43",
         "U+DE44" }
  @@ "U+D836" :>
       { "U+DE00", "U+DE01", "U+DE02", "U+DE03", "U+DE04", "U+DE05", "U+DE06", "U+DE07",
         "U+DE08", "U+DE09", "U+DE0A", "U+DE0B", "U+DE0C", "U+DE0D", "U+DE0E", "U+DE0F",
         "U+DE10", "U+DE11", "U+DE12", "U+DE13", "U+DE14", "U+DE15", "U+DE16", "U+DE17",
         "U+DE18", "U+DE19", "U+DE1A", "U+DE1B", "U+DE1C", "U+DE1D", "U+DE1E", "U+DE1F",
         "U+DE20", "U+DE21", "U+DE22", "U+DE23", "U+DE24", "U+DE25", "U+DE26", "U+DE27",
         "U+DE28", "U+DE29", "U+DE2A", "U+DE2B", "U+DE2C", "U+DE2D", "U+DE2E", "U+DE2F",
         "U+DE30", "U+DE31", "U+DE32", "U+DE33", "U+DE34", "U+DE35", "U+DE36", "U+DE3B",
         "U+DE3C", "U+DE3D", "U+DE3E", "U+DE3F", "U+DE40", "U+DE41", "U+DE42", "U+DE43",
         "U+DE44", "U+DE45", "U+DE46", "U+DE47", "U+DE48", "U+DE49", "U+DE4A", "U+DE4B",
         "U+DE4C", "U+DE4D", "U+DE4E", "U+DE4F", "U+DE50", "U+DE51", "U+DE52", "U+DE53",
         "U+DE54", "U+DE55", "U+DE56", "U+DE57", "U+DE58", "U+DE59", "U+DE5A", "U+DE5B",
         "U+DE5C", "U+DE5D", "U+DE5E", "U+DE5F", "U+DE60", "U+DE61", "U+DE62", "U+DE63",
         "U+DE64", "U+DE65", "U+DE66", "U+DE67", "U+DE68", "U+DE69", "U+DE6A", "U+DE6B",
         "U+DE6C", "U+DE75", "U+DE84", "U+DE9B", "U+DE9C", "U+DE9D", "U+DE9E", "U+DE9F",
         "U+DEA1", "U+DEA2", "U+DEA3", "U+DEA4", "U+DEA5", "U+DEA6", "U+DEA7", "U+DEA8",
         "U+DEA9", "U+DEAA", "U+DEAB", "U+DEAC", "U+DEAD", "U+DEAE", "U+DEAF" }
  @@ "U+D838" :>
       { "U+DC00", "U+DC01", "U+DC02", "U+DC03", "U+DC04", "U+DC05", "U+DC06", "U+DC08",
         "U+DC09", "U+DC0A", "U+DC0B", "U+DC0C", "U+DC0D", "U+DC0E", "U+DC0F", "U+DC10",
         "U+DC11", "U+DC12", "U+DC13", "U+DC14", "U+DC15", "U+DC16", "U+DC17", "U+DC18",
         "U+DC1B", "U+DC1C", "U+DC1D", "U+DC1E", "U+DC1F", "U+DC20", "U+DC21", "U+DC23",
         "U+DC24", "U+DC26", "U+DC27", "U+DC28", "U+DC29", "U+DC2A", "U+DC30", "U+DC31",
         "U+DC32", "U+DC33", "U+DC34", "U+DC35", "U+DC36", "U+DC37", "U+DC38", "U+DC39",
         "U+DC3A", "U+DC3B", "U+DC3C", "U+DC3D", "U+DC3E", "U+DC3F", "U+DC40", "U+DC41",
         "U+DC42", "U+DC43", "U+DC44", "U+DC45", "U+DC46", "U+DC47", "U+DC48", "U+DC49",
         "U+DC4A", "U+DC4B", "U+DC4C", "U+DC4D", "U+DC4E", "U+DC4F", "U+DC50", "U+DC51",
         "U+DC52", "U+DC53", "U+DC54", "U+DC55", "U+DC56", "U+DC57", "U+DC58", "U+DC59",
         "U+DC5A", "U+DC5B", "U+DC5C", "U+DC5D", "U+DC5E", "U+DC5F", "U+DC60", "U+DC61",
         "U+DC62", "U+DC63", "U+DC64", "U+DC65", "U+DC66", "U+DC67", "U+DC68", "U+DC69",
         "U+DC6A", "U+DC6B", "U+DC6C", "U+DC6D", "U+DC8F", "U+DD30", "U+DD31", "U+DD32",
         "U+DD33", "U+DD34", "U+DD35", "U+DD36", "U+DD37", "U+DD38", "U+DD39", "U+DD3A",
         "U+DD3B", "U+DD3C", "U+DD3D", "U+DEAE", "U+DEEC", "U+DEED", "U+DEEE", "U+DEEF" }
  @@ "U+D839" :>
       { "U+DCEB", "U+DCEC", "U+DCED", "U+DCEE", "U+DCEF", "U+DDEE", "U+DDEF", "U+DEE3",
         "U+DEE6", "U+DEEE", "U+DEEF", "U+DEF5", "U+DEFF" }
  @@ "U+D83A" :>
       { "U+DCD0", "U+DCD1", "U+DCD2", "U+DCD3", "U+DCD4", "U+DCD5", "U+DCD6", "U+DD44",
         "U+DD45", "U+DD46", "U+DD47", "U+DD48", "U+DD49", "U+DD4A", "U+DD4B" }
  @@ "U+D83C" :>
       { "U+DFFB", "U+DFFC", "U+DFFD", "U+DFFE", "U+DFFF" }
  @@ "U+DB40" :>
       { "U+DC01", "U+DC20", "U+DC21", "U+DC22", "U+DC23", "U+DC24", "U+DC25", "U+DC26",
         "U+DC27", "U+DC28", "U+DC29", "U+DC2A", "U+DC2B", "U+DC2C", "U+DC2D", "U+DC2E",
         "U+DC2F", "U+DC30", "U+DC31", "U+DC32", "U+DC33", "U+DC34", "U+DC35", "U+DC36",
         "U+DC37", "U+DC38", "U+DC39", "U+DC3A", "U+DC3B", "U+DC3C", "U+DC3D", "U+DC3E",
         "U+DC3F", "U+DC40", "U+DC41", "U+DC42", "U+DC43", "U+DC44", "U+DC45", "U+DC46",
         "U+DC47", "U+DC48", "U+DC49", "U+DC4A", "U+DC4B", "U+DC4C", "U+DC4D", "U+DC4E",
         "U+DC4F", "U+DC50", "U+DC51", "U+DC52", "U+DC53", "U+DC54", "U+DC55", "U+DC56",
         "U+DC57", "U+DC58", "U+DC59", "U+DC5A", "U+DC5B", "U+DC5C", "U+DC5D", "U+DC5E",
         "U+DC5F", "U+DC60", "U+DC61", "U+DC62", "U+DC63", "U+DC64", "U+DC65", "U+DC66",
         "U+DC67", "U+DC68", "U+DC69", "U+DC6A", "U+DC6B", "U+DC6C", "U+DC6D", "U+DC6E",
         "U+DC6F", "U+DC70", "U+DC71", "U+DC72", "U+DC73", "U+DC74", "U+DC75", "U+DC76",
         "U+DC77", "U+DC78", "U+DC79", "U+DC7A", "U+DC7B", "U+DC7C", "U+DC7D", "U+DC7E",
         "U+DC7F", "U+DD00", "U+DD01", "U+DD02", "U+DD03", "U+DD04", "U+DD05", "U+DD06",
         "U+DD07", "U+DD08", "U+DD09", "U+DD0A", "U+DD0B", "U+DD0C", "U+DD0D", "U+DD0E",
         "U+DD0F", "U+DD10", "U+DD11", "U+DD12", "U+DD13", "U+DD14", "U+DD15", "U+DD16",
         "U+DD17", "U+DD18", "U+DD19", "U+DD1A", "U+DD1B", "U+DD1C", "U+DD1D", "U+DD1E",
         "U+DD1F", "U+DD20", "U+DD21", "U+DD22", "U+DD23", "U+DD24", "U+DD25", "U+DD26",
         "U+DD27", "U+DD28", "U+DD29", "U+DD2A", "U+DD2B", "U+DD2C", "U+DD2D", "U+DD2E",
         "U+DD2F", "U+DD30", "U+DD31", "U+DD32", "U+DD33", "U+DD34", "U+DD35", "U+DD36",
         "U+DD37", "U+DD38", "U+DD39", "U+DD3A", "U+DD3B", "U+DD3C", "U+DD3D", "U+DD3E",
         "U+DD3F", "U+DD40", "U+DD41", "U+DD42", "U+DD43", "U+DD44", "U+DD45", "U+DD46",
         "U+DD47", "U+DD48", "U+DD49", "U+DD4A", "U+DD4B", "U+DD4C", "U+DD4D", "U+DD4E",
         "U+DD4F", "U+DD50", "U+DD51", "U+DD52", "U+DD53", "U+DD54", "U+DD55", "U+DD56",
         "U+DD57", "U+DD58", "U+DD59", "U+DD5A", "U+DD5B", "U+DD5C", "U+DD5D", "U+DD5E",
         "U+DD5F", "U+DD60", "U+DD61", "U+DD62", "U+DD63", "U+DD64", "U+DD65", "U+DD66",
         "U+DD67", "U+DD68", "U+DD69", "U+DD6A", "U+DD6B", "U+DD6C", "U+DD6D", "U+DD6E",
         "U+DD6F", "U+DD70", "U+DD71", "U+DD72", "U+DD73", "U+DD74", "U+DD75", "U+DD76",
         "U+DD77", "U+DD78", "U+DD79", "U+DD7A", "U+DD7B", "U+DD7C", "U+DD7D", "U+DD7E",
         "U+DD7F", "U+DD80", "U+DD81", "U+DD82", "U+DD83", "U+DD84", "U+DD85", "U+DD86",
         "U+DD87", "U+DD88", "U+DD89", "U+DD8A", "U+DD8B", "U+DD8C", "U+DD8D", "U+DD8E",
         "U+DD8F", "U+DD90", "U+DD91", "U+DD92", "U+DD93", "U+DD94", "U+DD95", "U+DD96",
         "U+DD97", "U+DD98", "U+DD99", "U+DD9A", "U+DD9B", "U+DD9C", "U+DD9D", "U+DD9E",
         "U+DD9F", "U+DDA0", "U+DDA1", "U+DDA2", "U+DDA3", "U+DDA4", "U+DDA5", "U+DDA6",
         "U+DDA7", "U+DDA8", "U+DDA9", "U+DDAA", "U+DDAB", "U+DDAC", "U+DDAD", "U+DDAE",
         "U+DDAF", "U+DDB0", "U+DDB1", "U+DDB2", "U+DDB3", "U+DDB4", "U+DDB5", "U+DDB6",
         "U+DDB7", "U+DDB8", "U+DDB9", "U+DDBA", "U+DDBB", "U+DDBC", "U+DDBD", "U+DDBE",
         "U+DDBF", "U+DDC0", "U+DDC1", "U+DDC2", "U+DDC3", "U+DDC4", "U+DDC5", "U+DDC6",
         "U+DDC7", "U+DDC8", "U+DDC9", "U+DDCA", "U+DDCB", "U+DDCC", "U+DDCD", "U+DDCE",
         "U+DDCF", "U+DDD0", "U+DDD1", "U+DDD2", "U+DDD3", "U+DDD4", "U+DDD5", "U+DDD6",
         "U+DDD7", "U+DDD8", "U+DDD9", "U+DDDA", "U+DDDB", "U+DDDC", "U+DDDD", "U+DDDE",
         "U+DDDF", "U+DDE0", "U+DDE1", "U+DDE2", "U+DDE3", "U+DDE4", "U+DDE5", "U+DDE6",
         "U+DDE7", "U+DDE8", "U+DDE9", "U+DDEA", "U+DDEB", "U+DDEC", "U+DDED", "U+DDEE",
         "U+DDEF" }

\* the code units that have a lower-case mapping of one unit
UpperLetters == DOMAIN UpperToLower

\* the code units that are the lower case of another
LowerLetters == { UpperToLower[c] : c \in UpperLetters }

\* code units with the property Cased and without Case_Ignorable
Cased == UpperLetters \cup LowerLetters \cup OtherCased

\* units j-1 and j of s are the lead and trail unit of a character of T
pairIn(T, s, j) ==
  /\ j > 1
  /\ j <= Len(s)
  /\ s[j - 1] \in DOMAIN T
  /\ s[j] \in T[s[j - 1]]

RECURSIVE precededByCased(_, _)
\* going back from unit j of s, the first character that is not
\* case-ignorable is cased
precededByCased(s, j) ==
  IF j < 1 THEN FALSE
  ELSE IF s[j] \in CaseIgnorable THEN precededByCased(s, j - 1)
  ELSE IF pairIn(SupplementaryCaseIgnorable, s, j) THEN precededByCased(s, j - 2)
  ELSE s[j] \in Cased \/ pairIn(SupplementaryCased, s, j)

RECURSIVE followedByCased(_, _)
\* going on from unit j of s, the first character that is not
\* case-ignorable is cased
followedByCased(s, j) ==
  IF j > Len(s) THEN FALSE
  ELSE IF s[j] \in CaseIgnorable THEN followedByCased(s, j + 1)
  ELSE IF pairIn(SupplementaryCaseIgnorable, s, j + 1) THEN followedByCased(s, j + 2)
  ELSE s[j] \in Cased \/ pairIn(SupplementaryCased, s, j + 1)

\* the condition Final_Sigma of SpecialCasing for the capital sigma at unit i
finalSigma(s, i) == precededByCased(s, i - 1) /\ ~followedByCased(s, i + 1)

\* the trail units that have a lower-case mapping, by lead unit
SupplementaryUpper ==
  [lead \in DOMAIN SupplementaryToLower |-> DOMAIN SupplementaryToLower[lead]]

\* the lower case of unit i of s: one unit, except for I WITH DOT ABOVE,
\* which becomes i and COMBINING DOT ABOVE
lowerAt(s, i) ==
  LET c == s[i]
  IN  IF c = "Σ" THEN IF finalSigma(s, i) THEN <<"ς">> ELSE <<"σ">>
      ELSE IF c \in UpperLetters THEN <<UpperToLower[c]>>
      ELSE IF c = "U+0130" THEN <<"i", "U+0307">>
      ELSE IF pairIn(SupplementaryUpper, s, i)
             THEN <<SupplementaryToLower[s[i - 1]][c]>>
      ELSE <<c>>

RECURSIVE lowerFrom(_, _)
\* the lower case of s from unit i on
lowerFrom(s, i) ==
  IF i > Len(s) THEN <<>> ELSE lowerAt(s, i) \o lowerFrom(s, i + 1)

\* String.prototype.toLowerCase
toLowerCase(s) == lowerFrom(s, 1)

\* String.prototype.includes
includes(s, sub) ==
  \E i \in 0..(Len(s) - Len(sub)) : SubSeq(s, i + 1, i + Len(sub)) = sub

Digit == <<"0","1","2","3","4","5","6","7","8","9">>

RECURSIVE toString(_)
\* Number.prototype.toString of a non-negative integer
toString(n) ==
  IF n < 10 THEN <<Digit[n + 1]>>
  ELSE toString(n \div 10) \o <<Digit[(n % 10) + 1]>>

\* Number.prototype.toFixed(2); w is the number in hundredths
toFixed2(w) ==
  toString(w \div 100) \o <<".">> \o <<Digit[((w \div 10) % 10) + 1], Digit[(w % 10) + 1]>>

\* Array.prototype.slice(from, to)
slice(s, from, to) == SubSeq(s, from + 1, Min(to, Len(s)))

----------------------------------------------------------------------------
(* data/popularChemicals *)

popularChemicals ==
  <<
    [cid |-> 702, name |-> <<"E","t","h","a","n","o","l">>,
     formula |-> <<"C","2","H","6","O">>, category |-> <<"S","o","l","v","e","n","t">>],
    [cid |-> 180, name |-> <<"A","c","e","t","o","n","e">>,
     formula |-> <<"C","3","H","6","O">>, category |-> <<"S","o","l","v","e","n","t">>],
    [cid |-> 887, name |-> <<"M","e","t","h","a","n","o","l">>,
     formula |-> <<"C","H","4","O">>, category |-> <<"S","o","l","v","e","n","t">>],
    [cid |-> 3776, name |-> <<"I","s","o","p","r","o","p","a","n","o","l">>,
     formula |-> <<"C","3","H","8","O">>, category |-> <<"S","o","l","v","e","n","t">>],
    [cid |-> 241, name |-> <<"B","e","n","z","e","n","e">>,
     formula |-> <<"C","6","H","6">>, category |-> <<"S","o","l","v","e","n","t">>],
    [cid |-> 1140, name |-> <<"T","o","l","u","e","n","e">>,
     formula |-> <<"C","7","H","8">>, category |-> <<"S","o","l","v","e","n","t">>],
    [cid |-> 8078, name |-> <<"C","h","l","o","r","o","f","o","r","m">>,
     formula |-> <<"C","H","C","l","3">>, category |-> <<"S","o","l","v","e","n","t">>],
    [cid |-> 6212, name |-> <<"E","t","h","y","l"," ","a","c","e","t","a","t","e">>,
     formula |-> <<"C","4","H","8","O","2">>, category |-> <<"S","o","l","v","e","n","t">>],
    [cid |-> 6569, name |-> <<"D","i","e","t","h","y","l"," ","e","t","h","e","r">>,
     formula |-> <<"C","4","H","1","0","O">>, category |-> <<"S","o","l","v","e","n","t">>],
    [cid |-> 8252, name |-> <<"D","i","c","h","l","o","r","o","m","e","t","h","a","n","e">>,
     formula |-> <<"C","H","2","C","l","2">>, category |-> <<"S","o","l","v","e","n","t">>],
    [cid |-> 1118, name |-> <<"S","u","l","f","u","r","i","c"," ","a","c","i","d">>,
     formula |-> <<"H","2","S","O","4">>, category |-> <<"A","c","i","d">>],
    [cid |-> 313, name |-> <<"H","y","d","r","o","c","h","l","o","r","i","c"," ","a","c","i","d">>,
     formula |-> <<"H","C","l">>, category |-> <<"A","c","i","d">>],
    [cid |-> 944, name |-> <<"N","i","t","r","i","c"," ","a","c","i","d">>,
     formula |-> <<"H","N","O","3">>, category |-> <<"A","c","i","d">>],
    [cid |-> 176, name |-> <<"A","c","e","t","i","c"," ","a","c","i","d">>,
     formula |-> <<"C","2","H","4","O","2">>, category |-> <<"A","c","i","d">>],
    [cid |-> 1032, name |-> <<"P","h","o","s","p","h","o","r","i","c"," ","a","c","i","d">>,
     formula |-> <<"H","3","P","O","4">>, category |-> <<"A","c","i","d">>],
    [cid |-> 284, name |-> <<"F","o","r","m","i","c"," ","a","c","i","d">>,
     formula |-> <<"C","H","2","O","2">>, category |-> <<"A","c","i","d">>],
    [cid |-> 338, name |-> <<"C","i","t","r","i","c"," ","a","c","i","d">>,
     formula |-> <<"C","6","H","8","O","7">>, category |-> <<"A","c","i","d">>],
    [cid |-> 1110, name |-> <<"C","a","r","b","o","n","i","c"," ","a","c","i","d">>,
     formula |-> <<"H","2","C","O","3">>, category |-> <<"A","c","i","d">>],
    [cid |-> 14798, name |-> <<"S","o","d","i","u","m"," ","h","y","d","r","o","x","i","d","e">>,
     formula |-> <<"N","a","O","H">>, category |-> <<"B","a","s","e">>],
    [cid |-> 14797, name |-> <<"P","o","t","a","s","s","i","u","m"," ","h","y","d","r","o","x","i","d","e">>,
     formula |-> <<"K","O","H">>, category |-> <<"B","a","s","e">>],
    [cid |-> 222, name |-> <<"A","m","m","o","n","i","a">>,
     formula |-> <<"N","H","3">>, category |-> <<"B","a","s","e">>],
    [cid |-> 14917, name |-> <<"C","a","l","c","i","u","m"," ","h","y","d","r","o","x","i","d","e">>,
     formula |-> <<"C","a","(","O","H",")","2">>, category |-> <<"B","a","s","e">>],
    [cid |-> 16211, name |-> <<"S","o","d","i","u","m"," ","c","a","r","b","o","n","a","t","e">>,
     formula |-> <<"N","a","2","C","O","3">>, category |-> <<"B","a","s","e">>],
    [cid |-> 2244, name |-> <<"A","s","p","i","r","i","n">>,
     formula |-> <<"C","9","H","8","O","4">>, category |-> <<"P","h","a","r","m","a","c","e","u","t","i","c","a","l">>],
    [cid |-> 1983, name |-> <<"A","c","e","t","a","m","i","n","o","p","h","e","n">>,
     formula |-> <<"C","8","H","9","N","O","2">>, category |-> <<"P","h","a","r","m","a","c","e","u","t","i","c","a","l">>],
    [cid |-> 3672, name |-> <<"I","b","u","p","r","o","f","e","n">>,
     formula |-> <<"C","1","3","H","1","8","O","2">>, category |-> <<"P","h","a","r","m","a","c","e","u","t","i","c","a","l">>],
    [cid |-> 2519, name |-> <<"C","a","f","f","e","i","n","e">>,
     formula |-> <<"C","8","H","1","0","N","4","O","2">>, category |-> <<"P","h","a","r","m","a","c","e","u","t","i","c","a","l">>],
    [cid |-> 5090, name |-> <<"G","l","u","c","o","s","e">>,
     formula |-> <<"C","6","H","1","2","O","6">>, category |-> <<"P","h","a","r","m","a","c","e","u","t","i","c","a","l">>],
    [cid |-> 5988, name |-> <<"P","e","n","i","c","i","l","l","i","n">>,
     formula |-> <<"C","1","6","H","1","8","N","2","O","4","S">>, category |-> <<"P","h","a","r","m","a","c","e","u","t","i","c","a","l">>],
    [cid |-> 2157, name |-> <<"M","o","r","p","h","i","n","e">>,
     formula |-> <<"C","1","7","H","1","9","N","O","3">>, category |-> <<"P","h","a","r","m","a","c","e","u","t","i","c","a","l">>],
    [cid |-> 5353740, name |-> <<"A","m","o","x","i","c","i","l","l","i","n">>,
     formula |-> <<"C","1","6","H","1","9","N","3","O","5","S">>, category |-> <<"P","h","a","r","m","a","c","e","u","t","i","c","a","l">>],
    [cid |-> 977, name |-> <<"O","x","y","g","e","n">>,
     formula |-> <<"O","2">>, category |-> <<"E","l","e","m","e","n","t">>],
    [cid |-> 783, name |-> <<"H","y","d","r","o","g","e","n">>,
     formula |-> <<"H","2">>, category |-> <<"E","l","e","m","e","n","t">>],
    [cid |-> 947, name |-> <<"N","i","t","r","o","g","e","n">>,
     formula |-> <<"N","2">>, category |-> <<"E","l","e","m","e","n","t">>],
    [cid |-> 280, name |-> <<"C","a","r","b","o","n"," ","d","i","o","x","i","d","e">>,
     formula |-> <<"C","O","2">>, category |-> <<"E","l","e","m","e","n","t">>],
    [cid |-> 962, name |-> <<"W","a","t","e","r">>,
     formula |-> <<"H","2","O">>, category |-> <<"E","l","e","m","e","n","t">>],
    [cid |-> 24823, name |-> <<"S","o","d","i","u","m"," ","c","h","l","o","r","i","d","e">>,
     formula |-> <<"N","a","C","l">>, category |-> <<"S","a","l","t">>],
    [cid |-> 5460341, name |-> <<"C","a","l","c","i","u","m"," ","c","h","l","o","r","i","d","e">>,
     formula |-> <<"C","a","C","l","2">>, category |-> <<"S","a","l","t">>],
    [cid |-> 6337, name |-> <<"F","o","r","m","a","l","d","e","h","y","d","e">>,
     formula |-> <<"C","H","2","O">>, category |-> <<"O","r","g","a","n","i","c">>],
    [cid |-> 174, name |-> <<"E","t","h","y","l","e","n","e">>,
     formula |-> <<"C","2","H","4">>, category |-> <<"O","r","g","a","n","i","c">>],
    [cid |-> 6544, name |-> <<"P","r","o","p","a","n","e">>,
     formula |-> <<"C","3","H","8">>, category |-> <<"O","r","g","a","n","i","c">>],
    [cid |-> 7843, name |-> <<"B","u","t","a","n","e">>,
     formula |-> <<"C","4","H","1","0">>, category |-> <<"O","r","g","a","n","i","c">>],
    [cid |-> 8058, name |-> <<"H","e","x","a","n","e">>,
     formula |-> <<"C","6","H","1","4">>, category |-> <<"O","r","g","a","n","i","c">>],
    [cid |-> 297, name |-> <<"M","e","t","h","a","n","e">>,
     formula |-> <<"C","H","4">>, category |-> <<"O","r","g","a","n","i","c">>],
    [cid |-> 6276, name |-> <<"E","t","h","a","n","e">>,
     formula |-> <<"C","2","H","6">>, category |-> <<"O","r","g","a","n","i","c">>],
    [cid |-> 753, name |-> <<"G","l","y","c","e","r","o","l">>,
     formula |-> <<"C","3","H","8","O","3">>, category |-> <<"O","r","g","a","n","i","c">>],
    [cid |-> 5793, name |-> <<"S","u","c","r","o","s","e">>,
     formula |-> <<"C","1","2","H","2","2","O","1","1">>, category |-> <<"O","r","g","a","n","i","c">>],
    [cid |-> 5282230, name |-> <<"F","r","u","c","t","o","s","e">>,
     formula |-> <<"C","6","H","1","2","O","6">>, category |-> <<"O","r","g","a","n","i","c">>],
    [cid |-> 784, name |-> <<"H","y","d","r","o","g","e","n"," ","p","e","r","o","x","i","d","e">>,
     formula |-> <<"H","2","O","2">>, category |-> <<"O","x","i","d","i","z","e","r">>],
    [cid |-> 23925, name |-> <<"S","o","d","i","u","m"," ","b","i","c","a","r","b","o","n","a","t","e">>,
     formula |-> <<"N","a","H","C","O","3">>, category |-> <<"B","a","s","e">>],
    [cid |-> 5462309, name |-> <<"P","o","t","a","s","s","i","u","m"," ","p","e","r","m","a","n","g","a","n","a","t","e">>,
     formula |-> <<"K","M","n","O","4">>, category |-> <<"O","x","i","d","i","z","e","r">>],
    [cid |-> 24437, name |-> <<"S","o","d","i","u","m"," ","h","y","p","o","c","h","l","o","r","i","t","e">>,
     formula |-> <<"N","a","C","l","O">>, category |-> <<"O","x","i","d","i","z","e","r">>],
    [cid |-> 24860, name |-> <<"C","a","l","c","i","u","m"," ","c","a","r","b","o","n","a","t","e">>,
     formula |-> <<"C","a","C","O","3">>, category |-> <<"S","a","l","t">>],
    [cid |-> 7847, name |-> <<"P","h","e","n","o","l">>,
     formula |-> <<"C","6","H","6","O">>, category |-> <<"O","r","g","a","n","i","c">>],
    [cid |-> 996, name |-> <<"U","r","e","a">>,
     formula |-> <<"C","H","4","N","2","O">>, category |-> <<"O","r","g","a","n","i","c">>],
    [cid |-> 1031, name |-> <<"P","y","r","i","d","i","n","e">>,
     formula |-> <<"C","5","H","5","N">>, category |-> <<"O","r","g","a","n","i","c">>],
    [cid |-> 6029, name |-> <<"A","n","i","l","i","n","e">>,
     formula |-> <<"C","6","H","7","N">>, category |-> <<"O","r","g","a","n","i","c">>],
    [cid |-> 6324, name |-> <<"S","t","y","r","e","n","e">>,
     formula |-> <<"C","8","H","8">>, category |-> <<"O","r","g","a","n","i","c">>]
  >>

----------------------------------------------------------------------------
(* hooks/useHybridSearch: conversions *)

convertPopularToChemical(popular) ==
  [id          |-> toString(popular.cid),
   name        |-> popular.name,
   formula     |-> popular.formula,
   casNumber   |-> <<>>,
   category    |-> popular.category,
   hazardLevel |-> "Moderate",
   description |-> <<"C","o","m","m","o","n"," ">> \o toLowerCase(popular.category)]

convertPubChemToChemical(compound) ==
  [id          |-> toString(compound.cid),
   name        |-> compound.name,
   formula     |-> compound.molecularFormula,
   casNumber   |-> <<>>,
   category    |-> <<"O","r","g","a","n","i","c">>,
   hazardLevel |-> "Moderate",
   description |-> <<"M","W",":"," ">> \o toFixed2(compound.molecularWeight)
                     \o <<" ","g","/","m","o","l">>]

----------------------------------------------------------------------------
(* The environment *)

\* query strings the user types
Queries ==
  { <<>>,
    <<"e","t","h","a","n","o","l">>,
    <<"x","q">> }

\* characters the queries given to the Local Index on its own are made of;
\* U+212A is KELVIN SIGN, whose lower case is k
LAlphabet == {"c", "C", "h", "2", "a", "U+212A"}

\* the queries given to the Local Index on its own
LQueries == UNION { [1..n -> LAlphabet] : n \in 0..MaxQueryLen }

\* compounds the remote resolution can return (molecularWeight in hundredths)
RemoteCompounds ==
  { [cid |-> 702, name |-> <<"e","t","h","a","n","o","l">>,
     molecularFormula |-> <<"C","2","H","6","O">>, molecularWeight |-> 4607],
    [cid |-> 8857, name |-> <<"e","t","h","y","l"," ","a","c","e","t","a","t","e">>,
     molecularFormula |-> <<"C","4","H","8","O","2">>, molecularWeight |-> 8811] }

\* what the awaited searchChemicalsAutocomplete(query, 50) can do: resolve
\* with a list of compounds, or make the try block throw
Outcomes ==
  { [kind |-> "ok", compounds |-> s] :
      s \in UNION { [1..n -> RemoteCompounds] : n \in 0..MaxResp } }
  \cup { [kind |-> "throw", compounds |-> <<>>] }

----------------------------------------------------------------------------
(* hooks/useHybridSearch: the effect *)

\* the query is compared as typed
searchCachedCaseSensitive(q) ==
  LET Matches(chem) == \/ includes(toLowerCase(chem.name), q)
                       \/ includes(toLowerCase(chem.formula), q)
      cached == slice(SelectSeq(popularChemicals, Matches), 0, CACHE_LIMIT)
  IN  [i \in 1..Len(cached) |-> convertPopularToChemical(cached[i])]

\* Phase 1 (searchCached): the Local Index matches of a query
searchCached(q) ==
  LET lowerQuery == toLowerCase(q)
      Matches(chem) == \/ includes(toLowerCase(chem.name), lowerQuery)
                       \/ includes(toLowerCase(chem.formula), lowerQuery)
      cached == slice(SelectSeq(popularChemicals, Matches), 0, CACHE_LIMIT)
  IN  [i \in 1..Len(cached) |-> convertPopularToChemical(cached[i])]

\* clearTimeout(apiTimer) of the effect instance g
clearTimeout(ts, g) == { t \in ts : t.gen # g }

\* convertPubChemToChemical of the compounds the remote resolution returns;
\* it depends on the compound only, so it is evaluated once for each of them
pubChemChemicals == [c \in RemoteCompounds |-> convertPubChemToChemical(c)]

\* compounds.map(convertPubChemToChemical)
apiChemicalsOf(compounds) ==
  [i \in 1..Len(compounds) |->
     IF compounds[i] \in RemoteCompounds
       THEN pubChemChemicals[compounds[i]]
       ELSE convertPubChemToChemical(compounds[i])]

\* the kept records come out in reverse order
uniqueApiResultsReversed(apiChemicals, closureCached) ==
  LET cachedIds == { closureCached[i].id : i \in 1..Len(closureCached) }
      NotCached(c) == c.id \notin cachedIds
      kept == SelectSeq(apiChemicals, NotCached)
  IN  [i \in 1..Len(kept) |-> kept[Len(kept) + 1 - i]]

\* the remote records that are kept: those whose id is not in the closure's
\* cachedResults
uniqueApiResults(apiChemicals, closureCached) ==
  LET cachedIds == { closureCached[i].id : i \in 1..Len(closureCached) }
      NotCached(c) == c.id \notin cachedIds
  IN  SelectSeq(apiChemicals, NotCached)

\* searchSource after a successful resolution
sourceAfterApi(closureCached) == IF Len(closureCached) > 0 THEN "both" ELSE "api"

\* loading is cleared only when the resolution succeeded
loadingClearedOnSuccess(o, cur) == IF o.kind = "ok" THEN FALSE ELSE cur

\* finally { setLoading(false) }: loading after searchAPI ended with outcome o
loadingAfterApi(o, cur) == FALSE

\* the merged list the hook returns
allResults == cachedResults \o apiResults

\* hasCachedResults of the returned object
hasCachedResults == Len(cachedResults) > 0

\* hasApiResults of the returned object
hasApiResults == Len(apiResults) > 0

\* the history record of the first render; prevSource is recorded by an
\* effect and prevLoading by a completion
NoStep == [op |-> "render", gen |-> 0, fresh |-> TRUE, kind |-> "none",
           prevSource |-> "cache", prevLoading |-> FALSE]

\* The effect body for query q, run as effect instance g: the state it sets
\* and the timer it arms; the closure captures the cachedResults of the
\* render that scheduled the effect.
\* the cached search is not run by the effect body
effectCachedDeferred(q) == <<>>

\* searchCached of the queries the user types; it depends on the query and
\* the catalog only, so it is evaluated once for each of them
typedMatches == [q \in Queries |-> searchCached(q)]

\* const cached = ... of searchCached inside the effect body
cachedOf(q) == IF q \in Queries THEN typedMatches[q] ELSE searchCached(q)

\* setCachedResults of the effect body
effectCached(q) == IF Len(q) < 1 THEN <<>> ELSE cachedOf(q)

\* setApiResults of the effect body (only the empty branch clears it)
effectApi(q, api) == IF Len(q) < 1 THEN <<>> ELSE api

\* searchCached never touches searchSource
effectSourceKept(q, source) == IF Len(q) < 1 THEN "cache" ELSE source

\* setSearchSource of the effect body
effectSource(q, source) ==
  IF Len(q) < 1 THEN "cache"
  ELSE IF Len(cachedOf(q)) > 0 THEN "cache" ELSE source

\* the timer armed by the effect body, with its closure
effectTimers(q, g, cached) ==
  IF Len(q) < 1 THEN {}
  ELSE { [q |-> q, cached |-> cached, gen |-> g, left |-> DEBOUNCE_MS] }

\* the remote calls a resolution has made so far: the suggestion calls, the
\* names looked up, the identifier lists of the batch detail calls, and the
\* calls whose transport failed
NoCalls == [auto |-> <<>>, names |-> <<>>, details |-> <<>>, failed |-> {}]

\* no resolution is running
ResolverIdle ==
  /\ rpc = "idle"
  /\ rquery = <<>>
  /\ rlimit = API_LIMIT
  /\ rnames = <<>>
  /\ rdone = <<>>
  /\ rvalid = <<>>
  /\ rcalls = NoCalls
  /\ rresult = <<>>

\* The first render of the hook with query q: the state is the initial one
\* of the useState calls, the effect is registered and has not run.
Init ==
  \E q \in Queries :
    /\ mounted = TRUE
    /\ query = q
    /\ cachedResults = <<>>
    /\ apiResults = <<>>
    /\ loading = FALSE
    /\ searchSource = "cache"
    /\ timers = {}
    /\ inflight = {}
    /\ effectPending = TRUE
    /\ cleanupPending = FALSE
    /\ gen = 0
    /\ sinceChange = 0
    /\ issued = {}
    /\ last = NoStep
    /\ ResolverIdle

\* The parent re-renders the hook with another query and the render is
\* committed: the state is as it was, the previous effect's timer is still
\* armed, and the effect of this render is pending.  A render is preceded
\* by the effects that are pending.
QueryChange(q) ==
  /\ mounted
  /\ ~effectPending
  /\ q # query
  /\ gen < MaxChanges
  /\ query' = q
  /\ effectPending' = TRUE
  /\ sinceChange' = 0
  /\ last' = [op |-> "change", gen |-> gen, fresh |-> TRUE, kind |-> "none",
              prevSource |-> "cache", prevLoading |-> FALSE]
  /\ UNCHANGED <<mounted, cachedResults, apiResults, loading, searchSource,
                 timers, inflight, cleanupPending, gen, issued>>
  /\ UNCHANGED rvars

\* The effect of the committed render runs: the cleanup of the previous
\* effect, then the effect body as effect instance gen + 1.
Effect ==
  /\ mounted
  /\ effectPending
  /\ effectPending' = FALSE
  /\ gen' = gen + 1
  /\ cachedResults' = effectCached(query)
  /\ apiResults' = effectApi(query, apiResults)
  /\ searchSource' = effectSource(query, searchSource)
  /\ timers' = clearTimeout(timers, gen) \cup effectTimers(query, gen + 1, cachedResults)
  /\ last' = [op |-> "effect", gen |-> gen + 1, fresh |-> TRUE, kind |-> "none",
              prevSource |-> searchSource, prevLoading |-> FALSE]
  /\ UNCHANGED <<mounted, query, loading, inflight, cleanupPending, sinceChange,
                 issued>>
  /\ UNCHANGED rvars

\* Time passes; a timer that is due fires, and a pending effect or cleanup
\* runs, before time passes further.
Tick ==
  /\ timers # {}
  /\ ~effectPending
  /\ ~cleanupPending
  /\ \A t \in timers : t.left > 0
  /\ timers' = { [t EXCEPT !.left = Max(0, t.left - TickStep)] : t \in timers }
  /\ sinceChange' = Min(DEBOUNCE_MS, sinceChange + TickStep)
  /\ last' = [op |-> "tick", gen |-> gen, fresh |-> TRUE, kind |-> "none",
              prevSource |-> "cache", prevLoading |-> FALSE]
  /\ UNCHANGED <<mounted, query, cachedResults, apiResults, loading,
                 searchSource, inflight, effectPending, cleanupPending, gen, issued>>
  /\ UNCHANGED rvars

\* the effect instance g is the one of the current query: it is the latest
\* to have run and no render has been committed since
isCurrent(g) == g = gen /\ ~effectPending

\* the timer fires again and again
timersAfterFireRepeating(ts, t) == ts

\* setTimeout is one-shot: a timer that has fired is gone
timersAfterFire(ts, t) == ts \ {t}

\* The debounce timer fires: searchAPI runs up to its await, where the call
\* searchChemicalsAutocomplete(query, 50) is pending; setLoading(true) is
\* dropped when the component has been removed.
Fire(t) ==
  /\ t \in timers
  /\ t.left = 0
  /\ timers' = timersAfterFire(timers, t)
  /\ loading' = (IF mounted THEN TRUE ELSE loading)
  /\ inflight' = inflight \cup { [q |-> t.q, limit |-> API_LIMIT,
                                  cached |-> t.cached, gen |-> t.gen] }
  /\ issued' = issued \cup {t.gen}
  /\ last' = [op |-> "fire", gen |-> t.gen, fresh |-> isCurrent(t.gen), kind |-> "none",
              prevSource |-> "cache", prevLoading |-> FALSE]
  /\ UNCHANGED <<mounted, query, cachedResults, apiResults, searchSource,
                 effectPending, cleanupPending, gen, sinceChange>>
  /\ UNCHANGED rvars

\* searchAPI resumes after the await with outcome o; its state updates are
\* dropped when the component has been unmounted.
Complete(c, o) ==
  /\ c \in inflight
  /\ inflight' = inflight \ {c}
  /\ IF ~mounted
       THEN UNCHANGED <<apiResults, searchSource, loading>>
       ELSE /\ loading' = loadingAfterApi(o, loading)
            /\ IF o.kind = "ok"
                 THEN /\ apiResults' =
                           uniqueApiResults(apiChemicalsOf(o.compounds), c.cached)
                      /\ searchSource' = sourceAfterApi(c.cached)
                 ELSE UNCHANGED <<apiResults, searchSource>>
  /\ last' = [op |-> "complete", gen |-> c.gen, fresh |-> isCurrent(c.gen),
              kind |-> o.kind,
              prevSource |-> "cache", prevLoading |-> loading]
  /\ UNCHANGED <<mounted, query, cachedResults, timers, effectPending,
                 cleanupPending, gen, sinceChange, issued>>
  /\ UNCHANGED rvars

\* The component is removed and the removal is committed: from here on
\* state updates are dropped.  The timer stays armed until the effect's
\* cleanup runs.  A pending effect runs before the removal is committed.
Unmount ==
  /\ mounted
  /\ ~effectPending
  /\ mounted' = FALSE
  /\ cleanupPending' = TRUE
  /\ last' = [op |-> "unmount", gen |-> gen, fresh |-> TRUE, kind |-> "none",
              prevSource |-> "cache", prevLoading |-> FALSE]
  /\ UNCHANGED <<query, cachedResults, apiResults, loading, searchSource,
                 timers, inflight, effectPending, gen, sinceChange, issued>>
  /\ UNCHANGED rvars

\* The cleanup of the last effect runs after the removal.
Cleanup ==
  /\ ~mounted
  /\ cleanupPending
  /\ cleanupPending' = FALSE
  /\ timers' = clearTimeout(timers, gen)
  /\ last' = [op |-> "cleanup", gen |-> gen, fresh |-> TRUE, kind |-> "none",
              prevSource |-> "cache", prevLoading |-> FALSE]
  /\ UNCHANGED <<mounted, query, cachedResults, apiResults, loading,
                 searchSource, inflight, effectPending, gen, sinceChange, issued>>
  /\ UNCHANGED rvars

Next ==
  \/ \E q \in Queries : QueryChange(q)
  \/ Effect
  \/ Tick
  \/ \E t \in timers : Fire(t)
  \/ \E c \in inflight : \E o \in Outcomes : Complete(c, o)
  \/ Unmount
  \/ Cleanup

Spec == Init /\ [][Next]_vars

\* The same machine with the scheduling the runtime guarantees: a pending
\* effect or cleanup runs, a due timer fires, time passes, and every remote
\* call eventually returns or fails.
LiveSpec ==
  /\ Init /\ [][Next]_vars
  /\ WF_vars(Effect)
  /\ WF_vars(Cleanup)
  /\ WF_vars(Tick)
  /\ WF_vars(\E t \in timers : Fire(t))
  /\ WF_vars(\E c \in inflight : \E o \in Outcomes : Complete(c, o))

----------------------------------------------------------------------------
(* services/pubchemApi: searchChemicalsAutocomplete and its environment *)

\* String.prototype.startsWith
startsWith(s, prefix) ==
  Len(prefix) <= Len(s) /\ SubSeq(s, 1, Len(prefix)) = prefix

\* query.length <= 2
SHORT_QUERY_MAX == 2

\* filtered.slice(0, 10)
SHORT_CANDIDATES == 10

\* suggestions.slice(0, 20)
MAX_SUGGESTIONS == 20

\* the table of the short-query branch
commonChemicals ==
     "a" :> <<<<"a","c","e","t","o","n","e">>,
             <<"a","m","m","o","n","i","a">>,
             <<"a","s","p","i","r","i","n">>,
             <<"a","c","e","t","i","c"," ","a","c","i","d">>,
             <<"a","c","e","t","a","m","i","n","o","p","h","e","n">>,
             <<"a","r","g","o","n">>,
             <<"a","r","s","e","n","i","c">>>>
  @@ "b" :> <<<<"b","e","n","z","e","n","e">>,
             <<"b","u","t","a","n","o","l">>,
             <<"b","r","o","m","i","n","e">>,
             <<"b","a","r","i","u","m">>,
             <<"b","o","r","o","n">>>>
  @@ "c" :> <<<<"c","a","f","f","e","i","n","e">>,
             <<"c","h","l","o","r","i","n","e">>,
             <<"c","a","r","b","o","n">>,
             <<"c","a","l","c","i","u","m">>,
             <<"c","o","p","p","e","r">>,
             <<"c","h","r","o","m","i","u","m">>>>
  @@ "d" :> <<<<"d","e","x","t","r","o","s","e">>,
             <<"d","i","m","e","t","h","y","l">>,
             <<"d","o","p","a","m","i","n","e">>>>
  @@ "e" :> <<<<"e","t","h","a","n","o","l">>,
             <<"e","t","h","a","n","e">>,
             <<"e","t","h","e","r">>,
             <<"e","p","i","n","e","p","h","r","i","n","e">>>>
  @@ "f" :> <<<<"f","o","r","m","a","l","d","e","h","y","d","e">>,
             <<"f","l","u","o","r","i","n","e">>,
             <<"f","r","u","c","t","o","s","e">>>>
  @@ "g" :> <<<<"g","l","u","c","o","s","e">>,
             <<"g","l","y","c","e","r","o","l">>,
             <<"g","o","l","d">>>>
  @@ "h" :> <<<<"h","y","d","r","o","g","e","n">>,
             <<"h","e","l","i","u","m">>,
             <<"h","y","d","r","o","c","h","l","o","r","i","c"," ","a","c","i","d">>>>
  @@ "i" :> <<<<"i","o","d","i","n","e">>,
             <<"i","r","o","n">>,
             <<"i","s","o","p","r","o","p","a","n","o","l">>,
             <<"i","b","u","p","r","o","f","e","n">>>>
  @@ "m" :> <<<<"m","e","t","h","a","n","o","l">>,
             <<"m","e","t","h","a","n","e">>,
             <<"m","e","r","c","u","r","y">>,
             <<"m","a","g","n","e","s","i","u","m">>>>
  @@ "n" :> <<<<"n","i","t","r","o","g","e","n">>,
             <<"n","e","o","n">>,
             <<"n","i","c","k","e","l">>,
             <<"n","i","t","r","i","c"," ","a","c","i","d">>>>
  @@ "o" :> <<<<"o","x","y","g","e","n">>,
             <<"o","z","o","n","e">>>>
  @@ "p" :> <<<<"p","r","o","p","a","n","o","l">>,
             <<"p","r","o","p","a","n","e">>,
             <<"p","h","o","s","p","h","o","r","u","s">>,
             <<"p","o","t","a","s","s","i","u","m">>>>
  @@ "s" :> <<<<"s","u","l","f","u","r","i","c"," ","a","c","i","d">>,
             <<"s","o","d","i","u","m">>,
             <<"s","i","l","v","e","r">>,
             <<"s","u","c","r","o","s","e">>>>
  @@ "t" :> <<<<"t","o","l","u","e","n","e">>,
             <<"t","i","t","a","n","i","u","m">>>>
  @@ "w" :> <<<<"w","a","t","e","r">>>>

\* queries the resolution is called with
RQueries ==
  { <<"a">>, <<"A","c">>, <<"z">>, <<"a","x">>, <<"e","t","h">> }

\* what PubChem knows of the names of the table that the queries reach
\* (molecularWeight in hundredths)
pubChemByName ==
     <<"a","c","e","t","o","n","e">> :>
        [cid |-> 180, molecularFormula |-> <<"C","3","H","6","O">>, molecularWeight |-> 5808]
  @@ <<"a","m","m","o","n","i","a">> :>
        [cid |-> 222, molecularFormula |-> <<"H","3","N">>, molecularWeight |-> 1703]
  @@ <<"a","s","p","i","r","i","n">> :>
        [cid |-> 2244, molecularFormula |-> <<"C","9","H","8","O","4">>, molecularWeight |-> 18016]
  @@ <<"a","c","e","t","i","c"," ","a","c","i","d">> :>
        [cid |-> 176, molecularFormula |-> <<"C","2","H","4","O","2">>, molecularWeight |-> 6005]
  @@ <<"a","c","e","t","a","m","i","n","o","p","h","e","n">> :>
        [cid |-> 1983, molecularFormula |-> <<"C","8","H","9","N","O","2">>, molecularWeight |-> 15116]
  @@ <<"a","r","g","o","n">> :>
        [cid |-> 23968, molecularFormula |-> <<"A","r">>, molecularWeight |-> 3995]
  @@ <<"a","r","s","e","n","i","c">> :>
        [cid |-> 5359596, molecularFormula |-> <<"A","s">>, molecularWeight |-> 7492]

\* names the suggestion endpoint answers with, in its order; the second is
\* the empty string
SuggestionPool ==
  << <<"e","t","h","a","n","o","l">>,
     <<>>,
     <<"e","t","h","e","r">>,
     <<"e","t","h","e","n","e">>,
     <<"e","t","h","y","l">> >>

\* a suggestion list longer than the code looks up: n1, n2, ...
LongSuggestions == [i \in 1..LongSuggCount |-> <<"n">> \o toString(i)]

\* identifiers the name lookups and the batch detail endpoint answer with
Cids == {5, 2, 9}

\* what PubChem knows of these identifiers
pubChemByCid ==
     5 :> [molecularFormula |-> <<"C","H","4">>, molecularWeight |-> 1604]
  @@ 2 :> [molecularFormula |-> <<>>, molecularWeight |-> 0]
  @@ 9 :> [molecularFormula |-> <<"H","2","O">>, molecularWeight |-> 1802]

\* answers of GET compound/name/<name>/JSON
NameOutcomes == {"fail", "empty", "ok"}

\* answers of the autocomplete endpoint: a non-ok status, a network or parse
\* error, or a list of names
SuggestOutcomes ==
  { [kind |-> "nonok", names |-> <<>>], [kind |-> "throw", names |-> <<>>] }
  \cup { [kind |-> "ok", names |-> SubSeq(SuggestionPool, 1, n)] :
           n \in 0..Min(MaxSugg, Len(SuggestionPool)) }
  \cup { [kind |-> "ok", names |-> LongSuggestions] }

\* answers of GET compound/name/<name>/cids/JSON: a failure, or an
\* IdentifierList whose first CID is cid (0: there is none)
CidOutcomes ==
  { [kind |-> "fail", cid |-> 0] }
  \cup { [kind |-> "ok", cid |-> c] : c \in Cids \cup {0} }

\* the answers explored for one name: any for the names of the pool, the
\* identifier 9 for the names of the long list
CidOutcomesFor(name) ==
  IF \E k \in 1..Len(SuggestionPool) : SuggestionPool[k] = name
    THEN CidOutcomes
    ELSE { [kind |-> "ok", cid |-> 9] }

\* answers of GET compound/cid/<cids>/JSON: a non-ok status, an error, or
\* PC_Compounds whose identifiers are, in this order, cids
DetailOutcomes ==
  { [kind |-> "nonok", cids |-> <<>>], [kind |-> "throw", cids |-> <<>>] }
  \cup { [kind |-> "ok", cids |-> s] :
           s \in { t \in UNION { [1..n -> Cids] : n \in 0..Cardinality(Cids) } :
                     \A i, j \in 1..Len(t) : t[i] = t[j] => i = j } }

\* the per-letter list is never filtered
shortCandidatesUnfiltered(q) ==
  LET lower == toLowerCase(q)
  IN  IF Len(q) > 0 /\ lower[1] \in DOMAIN commonChemicals
        THEN commonChemicals[lower[1]] ELSE <<>>

\* commonChemicals[firstChar] || [], filtered by the query when it has 2 chars
shortCandidates(q) ==
  LET lower == toLowerCase(q)
      suggestions == IF Len(q) > 0 /\ lower[1] \in DOMAIN commonChemicals
                       THEN commonChemicals[lower[1]] ELSE <<>>
      StartsWithQuery(s) == startsWith(toLowerCase(s), lower)
  IN  IF Len(q) = 2 THEN SelectSeq(suggestions, StartsWithQuery) ELSE suggestions

\* the short-query branch returns even without candidates
takesShortPathAlways(q) == Len(q) <= SHORT_QUERY_MAX

\* the short-query branch is taken and returns
takesShortPath(q) == Len(q) <= SHORT_QUERY_MAX /\ Len(shortCandidates(q)) > 0

\* searchChemicalByName(name): the compounds found, [] on any failure
searchChemicalByName(name, o) ==
  IF o = "ok" /\ name \in DOMAIN pubChemByName
    THEN << [cid |-> pubChemByName[name].cid,
             name |-> name,
             molecularFormula |-> pubChemByName[name].molecularFormula,
             molecularWeight |-> pubChemByName[name].molecularWeight] >>
    ELSE <<>>

\* results[0] || null; null is the empty list, a value the one-element list
firstOrNull(results) == IF Len(results) > 0 THEN <<results[1]>> ELSE <<>>

\* one cidPromise: null on failure, else { name, cid }
cidLookup(name, o) ==
  IF o.kind = "fail" THEN <<>> ELSE << [name |-> name, cid |-> o.cid] >>

RECURSIVE nonNull(_)
\* results.filter(r => r !== null)
nonNull(results) ==
  IF Len(results) = 0 THEN <<>> ELSE Head(results) \o nonNull(Tail(results))

\* the whole batch is lost when one lookup failed
validCidsAllOrNothing(cidResults) ==
  LET HasCid(r) == r.cid # 0
  IN  IF \E i \in 1..Len(cidResults) : cidResults[i] = <<>>
        THEN <<>> ELSE SelectSeq(nonNull(cidResults), HasCid)

\* cidResults.filter(r => r !== null && r.cid)
validCids(cidResults) ==
  LET HasCid(r) == r.cid # 0
  IN  SelectSeq(nonNull(cidResults), HasCid)

\* an empty matched name is kept
matchedNameNoFallback(valid, cid) ==
  LET Hit(v) == v.cid = cid
      hits == SelectSeq(valid, Hit)
  IN  IF Len(hits) > 0
        THEN hits[1].name
        ELSE <<"C","o","m","p","o","u","n","d"," ">> \o toString(cid)

\* validCids.find(v => v.cid === cid)?.name || `Compound ${cid}`
matchedName(valid, cid) ==
  LET Hit(v) == v.cid = cid
      hits == SelectSeq(valid, Hit)
  IN  IF Len(hits) > 0 /\ Len(hits[1].name) > 0
        THEN hits[1].name
        ELSE <<"C","o","m","p","o","u","n","d"," ">> \o toString(cid)

\* the records come out in the order of the resolved identifiers
mapCompoundsResolverOrder(cids, valid) ==
  LET InResponse(v) == \E i \in 1..Len(cids) : cids[i] = v.cid
      kept == SelectSeq(valid, InResponse)
  IN  [i \in 1..Len(kept) |->
         [cid |-> kept[i].cid,
          name |-> matchedName(valid, kept[i].cid),
          molecularFormula |-> pubChemByCid[kept[i].cid].molecularFormula,
          molecularWeight |-> pubChemByCid[kept[i].cid].molecularWeight]]

\* compounds.map(...): one record per detail record, in response order
mapCompounds(cids, valid) ==
  [i \in 1..Len(cids) |->
     [cid |-> cids[i],
      name |-> matchedName(valid, cids[i]),
      molecularFormula |-> pubChemByCid[cids[i]].molecularFormula,
      molecularWeight |-> pubChemByCid[cids[i]].molecularWeight]]

\* an empty result of the short-query branch goes on to the suggestion call
afterShortPathFallsThrough(results) == IF Len(results) = 0 THEN "suggest" ELSE "done"

\* return results.filter(...): the short-query branch ends the resolution
afterShortPath(results) == "done"

\* every suggestion is looked up
lookupNamesUncapped(suggestions) == suggestions

\* suggestions.slice(0, 20): the names that are looked up
lookupNames(suggestions) == slice(suggestions, 0, MAX_SUGGESTIONS)

\* an empty suggestion list starts the (empty) fan-out like any other
noSuggestionsIgnored(names) == FALSE

\* suggestions.length === 0
noSuggestions(names) == Len(names) = 0

\* only the first identifier is requested
batchCidsFirstOnly(valid) == << valid[1].cid >>

\* validCids.map(r => r.cid), joined into the one batch request
batchCids(valid) == [i \in 1..Len(valid) |-> valid[i].cid]

\* a failed transport rejects the promise
onTransportFailurePropagates(kind) == "thrown"

\* if (!response.ok) return []; catch (error) { return [] }: where the
\* resolution ends after a failed suggestion or detail call
onTransportFailure(kind) == "done"

\* the hook as it is after the effect of a first render with the empty query
HookIdle ==
  /\ mounted = TRUE
  /\ query = <<>>
  /\ cachedResults = <<>>
  /\ apiResults = <<>>
  /\ loading = FALSE
  /\ searchSource = "cache"
  /\ timers = {}
  /\ inflight = {}
  /\ effectPending = FALSE
  /\ cleanupPending = FALSE
  /\ gen = 1
  /\ sinceChange = 0
  /\ issued = {}
  /\ last = [NoStep EXCEPT !.op = "effect", !.gen = 1]

\* searchChemicalsAutocomplete(q, API_LIMIT) has been called
RInit ==
  /\ HookIdle
  /\ rpc = "start"
  /\ rquery \in RQueries
  /\ rlimit = API_LIMIT
  /\ rnames = <<>>
  /\ rdone = <<>>
  /\ rvalid = <<>>
  /\ rcalls = NoCalls
  /\ rresult = <<>>

\* Up to the first await: the short-query fan-out, or the suggestion call.
RStart ==
  /\ rpc = "start"
  /\ IF takesShortPath(rquery)
       THEN /\ rnames' = slice(shortCandidates(rquery), 0, SHORT_CANDIDATES)
            /\ rcalls' = [rcalls EXCEPT !.names = @ \o rnames']
            /\ rpc' = "short"
       ELSE /\ rcalls' = [rcalls EXCEPT
                            !.auto = Append(@, [query |-> rquery, limit |-> rlimit])]
            /\ rpc' = "suggest"
            /\ UNCHANGED rnames
  /\ UNCHANGED <<rquery, rlimit, rdone, rvalid, rresult>>
  /\ UNCHANGED hvars

\* One searchChemicalByName of the short-query fan-out settles.
RShortLookup(o) ==
  /\ rpc = "short"
  /\ Len(rdone) < Len(rnames)
  /\ rdone' = Append(rdone, firstOrNull(searchChemicalByName(rnames[Len(rdone) + 1], o)))
  /\ UNCHANGED <<rpc, rquery, rlimit, rnames, rvalid, rcalls, rresult>>
  /\ UNCHANGED hvars

\* Promise.all of the short-query fan-out has settled.
RShortReturn ==
  /\ rpc = "short"
  /\ Len(rdone) = Len(rnames)
  /\ rresult' = nonNull(rdone)
  /\ rpc' = afterShortPath(rresult')
  /\ UNCHANGED <<rquery, rlimit, rnames, rdone, rvalid, rcalls>>
  /\ UNCHANGED hvars

\* The suggestion call settles; with suggestions, the name lookups start.
RSuggestResponse(o) ==
  /\ rpc = "suggest"
  /\ IF o.kind # "ok"
       THEN /\ rpc' = onTransportFailure(o.kind)
            /\ rresult' = <<>>
            /\ rcalls' = [rcalls EXCEPT !.failed = @ \cup {"auto"}]
            /\ UNCHANGED rnames
       ELSE IF noSuggestions(o.names)
         THEN /\ rpc' = "done"
              /\ rresult' = <<>>
              /\ UNCHANGED <<rnames, rcalls>>
         ELSE /\ rnames' = lookupNames(o.names)
              /\ rcalls' = [rcalls EXCEPT !.names = @ \o rnames']
              /\ rpc' = "lookups"
              /\ UNCHANGED rresult
  /\ UNCHANGED <<rquery, rlimit, rdone, rvalid>>
  /\ UNCHANGED hvars

\* One name-to-identifier lookup settles.
RCidLookup(o) ==
  /\ rpc = "lookups"
  /\ Len(rdone) < Len(rnames)
  /\ o \in CidOutcomesFor(rnames[Len(rdone) + 1])
  /\ rdone' = Append(rdone, cidLookup(rnames[Len(rdone) + 1], o))
  /\ UNCHANGED <<rpc, rquery, rlimit, rnames, rvalid, rcalls, rresult>>
  /\ UNCHANGED hvars

\* Promise.all of the lookups has settled: the batch detail call, if any
\* identifier was found.
RBatchFetch ==
  /\ rpc = "lookups"
  /\ Len(rdone) = Len(rnames)
  /\ rvalid' = validCids(rdone)
  /\ IF Len(rvalid') = 0
       THEN /\ rpc' = "done"
            /\ rresult' = <<>>
            /\ UNCHANGED rcalls
       ELSE /\ rcalls' = [rcalls EXCEPT !.details = Append(@, batchCids(rvalid'))]
            /\ rpc' = "details"
            /\ UNCHANGED rresult
  /\ UNCHANGED <<rquery, rlimit, rnames, rdone>>
  /\ UNCHANGED hvars

\* The batch detail call settles.
RDetailsResponse(o) ==
  /\ rpc = "details"
  /\ IF o.kind # "ok"
       THEN /\ rpc' = onTransportFailure(o.kind)
            /\ rresult' = <<>>
            /\ rcalls' = [rcalls EXCEPT !.failed = @ \cup {"details"}]
       ELSE /\ rpc' = "done"
            /\ rresult' = mapCompounds(o.cids, rvalid)
            /\ UNCHANGED rcalls
  /\ UNCHANGED <<rquery, rlimit, rnames, rdone, rvalid>>
  /\ UNCHANGED hvars

RNext ==
  \/ RStart
  \/ \E o \in NameOutcomes : RShortLookup(o)
  \/ RShortReturn
  \/ \E o \in SuggestOutcomes : RSuggestResponse(o)
  \/ \E o \in CidOutcomes : RCidLookup(o)
  \/ RBatchFetch
  \/ \E o \in DetailOutcomes : RDetailsResponse(o)

ResolverSpec == RInit /\ [][RNext]_vars

----------------------------------------------------------------------------
(* The Local Index on its own: the first render with a query, then its effect *)

\* the first render of the hook with query q: the state is the initial one
LInit ==
  /\ query \in LQueries
  /\ mounted = TRUE
  /\ cachedResults = <<>>
  /\ apiResults = <<>>
  /\ loading = FALSE
  /\ searchSource = "cache"
  /\ timers = {}
  /\ inflight = {}
  /\ effectPending = TRUE
  /\ cleanupPending = FALSE
  /\ gen = 0
  /\ sinceChange = 0
  /\ issued = {}
  /\ last = NoStep
  /\ ResolverIdle

\* the effect of the first render runs
LEffect == Effect

LNext == LEffect

LocalSpec == LInit /\ [][LNext]_vars

----------------------------------------------------------------------------
(* Properties *)

Ethanol == <<"e","t","h","a","n","o","l">>

idsOf(chemicals) == { chemicals[i].id : i \in 1..Len(chemicals) }

\* C1: the completion of a remote resolution that was issued for an earlier
\* query (the query has changed since) leaves apiResults and searchSource
\* as they are.
C1_StaleResultDiscarded ==
  [][\A c \in inflight :
       (mounted /\ c \notin inflight' /\ ~isCurrent(c.gen))
         => (apiResults' = apiResults /\ searchSource' = searchSource)]_vars

\* C2: right after the successful completion of the resolution issued for the
\* current query, no record of apiResults has the identifier of a Local Index
\* match of that query, so no identifier occurs twice in results.
C2_RemoteDeduplicatedAgainstCache ==
  (mounted /\ last.op = "complete" /\ last.fresh /\ last.kind = "ok")
    => /\ idsOf(apiResults) \cap idsOf(searchCached(query)) = {}
       /\ \A i, j \in 1..Len(allResults) :
            allResults[i].id = allResults[j].id
              => (i = j \/ (i > Len(cachedResults) /\ j > Len(cachedResults)))

\* C3: a remote call is only ever issued for the current, non-empty query,
\* after the query has been unchanged for the whole debounce delay: the step
\* that issues a call finds the effect of the current query in place, and
\* the call carries the current query.
C3_OnlyDebouncedCurrentQueryIssued ==
  last.op = "fire"
    => /\ isCurrent(last.gen)
       /\ Len(query) > 0
       /\ sinceChange = DEBOUNCE_MS
       /\ \E c \in inflight : c.gen = last.gen /\ c.q = query

\* C4: while the query is empty, results is empty, loading is false and
\* searchSource is 'cache'.
C4_EmptyQueryIsIdle ==
  (mounted /\ Len(query) = 0)
    => (allResults = <<>> /\ loading = FALSE /\ searchSource = "cache")

\* C5: right after the effect of a change to a non-empty query, apiResults holds no record
\* of an earlier query's resolution, that is, it is empty.
C5_ApiResultsFreshPerQuery ==
  (mounted /\ last.op = "effect" /\ Len(query) > 0) => apiResults = <<>>

\* C6: right after the successful completion of the resolution issued for the
\* current query, searchSource is 'both' if the query has Local Index matches
\* and 'api' if it has none.
C6_SourceFollowsCacheOfQuery ==
  (mounted /\ last.op = "complete" /\ last.fresh /\ last.kind = "ok")
    => searchSource = (IF Len(searchCached(query)) > 0 THEN "both" ELSE "api")

\* C7: loading is true whenever the resolution issued for the current query
\* is in flight.
C7_LoadingWhileCurrentInFlight ==
  (mounted /\ \E c \in inflight : isCurrent(c.gen)) => loading = TRUE

\* C8: every completion of a remote resolution, successful or failed, leaves
\* loading false; and the hook eventually stays in a state with loading false
\* and no pending timer.
C8_LoadingAlwaysCleared ==
  /\ [][\A c \in inflight : (mounted /\ c \notin inflight') => loading' = FALSE]_vars
  /\ <>[](mounted => (loading = FALSE /\ timers = {} /\ inflight = {}))

\* C8 witness: a resolution has failed while loading was true; loading is
\* false and nothing is pending.
C8_Witness ==
  /\ mounted
  /\ last.op = "complete"
  /\ last.kind = "throw"
  /\ last.prevLoading = TRUE
  /\ loading = FALSE
  /\ timers = {}
  /\ inflight = {}

\* C9 as stated: in the state right after the query change, before the
\* effect of the change has run, cachedResults is already the non-empty list
\* of the new query's Local Index matches whenever it has any.
C9_CacheVisibleBeforeDebounce ==
  (mounted /\ last.op = "change" /\ Len(query) > 0 /\ Len(searchCached(query)) > 0)
    => /\ Len(cachedResults) > 0
       /\ cachedResults = searchCached(query)

\* C9: from the effect of the query change on, and as long as no remote call
\* has been issued for the current query, cachedResults is the non-empty
\* list of that query's Local Index matches whenever it has any (for
\* "ethanol": the record with formula C2H6O); right after the effect the
\* query's timer still has the whole delay to run and no call has been
\* issued for it.
C9_CacheVisibleOnceEffectRan ==
  /\ (mounted /\ ~effectPending /\ gen \notin issued
         /\ Len(query) > 0 /\ Len(searchCached(query)) > 0)
       => /\ Len(cachedResults) > 0
          /\ cachedResults = searchCached(query)
          /\ query = Ethanol
               => cachedResults[1].formula = <<"C","2","H","6","O">>
  /\ (mounted /\ last.op = "effect" /\ Len(query) > 0)
       => /\ gen \notin issued
          /\ \A t \in timers : t.gen = gen /\ t.q = query /\ t.left = DEBOUNCE_MS

\* C9 witness: the effect of the change to "ethanol" has just run, its timer
\* is pending with the whole delay left, and the cached records are already
\* displayed.
C9_Witness ==
  /\ last.op = "effect"
  /\ gen > 1
  /\ query = Ethanol
  /\ Len(cachedResults) = 2
  /\ cachedResults[1].id = <<"7","0","2">>
  /\ cachedResults[2].id = <<"8","8","7">>
  /\ \E t \in timers : t.gen = gen /\ t.left = DEBOUNCE_MS
  /\ gen \notin issued

\* C10: right after the effect of a change to a query that has a Local Index
\* match, searchSource is 'cache'.
C10_SourceCacheOnMatch ==
  (mounted /\ last.op = "effect" /\ Len(query) > 0 /\ Len(searchCached(query)) > 0)
    => searchSource = "cache"

\* C10 witness: searchSource was 'both' and an earlier query's call is still
\* in flight when the effect of a change to a query with a Local Index match
\* runs.
C10_Witness ==
  /\ last.op = "effect"
  /\ last.prevSource = "both"
  /\ inflight # {}
  /\ Len(query) > 0
  /\ Len(searchCached(query)) > 0
  /\ searchSource = "cache"

\* C11: right after the resolution issued for the current query has failed
\* (it threw inside the try block, or the resolver turned its failure into an
\* empty list), apiResults is empty, cachedResults is the list of the query's
\* Local Index matches and loading is false.
C11_FailureLeavesCacheOnly ==
  [][\A c \in inflight : \A o \in Outcomes :
       (mounted /\ isCurrent(c.gen) /\ Complete(c, o)
          /\ (o.kind = "throw" \/ o.compounds = <<>>))
         => /\ apiResults' = <<>>
            /\ cachedResults' = effectCached(query)
            /\ loading' = FALSE]_vars

\* positions in the catalog of the records of a list, by identifier
catalogPositions(chemicals) ==
  [i \in 1..Len(chemicals) |->
     CHOOSE p \in 0..Len(popularChemicals) :
       IF \E k \in 1..Len(popularChemicals) :
            toString(popularChemicals[k].cid) = chemicals[i].id
         THEN p > 0 /\ toString(popularChemicals[p].cid) = chemicals[i].id
         ELSE p = 0]

\* s is t with some elements left out, the others in the order of t
IsOrderedSubsequence(s, t) ==
  \E f \in [1..Len(s) -> 1..Len(t)] :
    /\ \A i \in 1..Len(s) : s[i] = t[f[i]]
    /\ \A i, j \in 1..Len(s) : i < j => f[i] < f[j]

\* the records of RemoteCompounds as apiChemicalsOf converts them, tabulated
remoteChemical == [x \in RemoteCompounds |-> convertPubChemToChemical(x)]

remoteChemicalsOf(compounds) ==
  [i \in 1..Len(compounds) |-> remoteChemical[compounds[i]]]

\* C12: results is cachedResults followed by apiResults; the records of
\* cachedResults are catalog entries in catalog order; the resolution's
\* records are stored in apiResults in the order in which the resolution
\* returned them; hasCachedResults and hasApiResults tell whether the two
\* lists are non-empty.
C12_ResultsAreCacheThenApi ==
  /\ [](/\ Len(allResults) = Len(cachedResults) + Len(apiResults)
        /\ SubSeq(allResults, 1, Len(cachedResults)) = cachedResults
        /\ SubSeq(allResults, Len(cachedResults) + 1, Len(allResults)) = apiResults
        /\ \A i \in 1..Len(cachedResults) : catalogPositions(cachedResults)[i] > 0
        /\ \A i, j \in 1..Len(cachedResults) :
             i < j => catalogPositions(cachedResults)[i] < catalogPositions(cachedResults)[j]
        /\ hasCachedResults <=> cachedResults # <<>>
        /\ hasApiResults <=> apiResults # <<>>)
  /\ [][(mounted /\ last'.op = "complete" /\ last'.kind = "ok") =>
          \A c \in inflight : \A o \in Outcomes :
            (/\ o.kind = "ok"
             /\ inflight' = inflight \ {c}
             /\ apiResults' =
                  uniqueApiResults(remoteChemicalsOf(o.compounds), c.cached)
             /\ Complete(c, o))
              => IsOrderedSubsequence(apiResults', remoteChemicalsOf(o.compounds))]_vars

\* C12 witness: a resolution has just stored two different records behind
\* the two cached records of "ethanol".
C12_Witness ==
  /\ mounted
  /\ last.op = "complete"
  /\ last.kind = "ok"
  /\ Len(cachedResults) = 2
  /\ Len(apiResults) = 2
  /\ apiResults[1].id # apiResults[2].id
  /\ Len(allResults) = 4

\* C13: no two records of results have the same identifier.
C13_ResultIdsUnique ==
  mounted => \A i, j \in 1..Len(allResults) :
               allResults[i].id = allResults[j].id => i = j

\* what the hook displays when q is its first query and the resolution
\* returns compounds: the initial render's cachedResults is empty
firstIssueResults(q, compounds) ==
  effectCached(q) \o uniqueApiResults(apiChemicalsOf(compounds), <<>>)

\* C15: whenever the resolution issued for the current query settles with
\* nothing else pending, results is what the same query with the same remote
\* response displays when it is issued first, whatever was queried before.
C15_SameQuerySameResults ==
  [][\A c \in inflight : \A o \in Outcomes :
       (mounted /\ isCurrent(c.gen) /\ o.kind = "ok" /\ Complete(c, o)
          /\ inflight' = {} /\ timers' = {})
         => allResults' = firstIssueResults(query, o.compounds)]_vars

\* the names of a list of records
namesOf(records) == [i \in 1..Len(records) |-> records[i].name]

\* the identifiers of a list of records
cidsOf(records) == [i \in 1..Len(records) |-> records[i].cid]

\* the per-letter list of "a", as the source spells it
NamesOfA ==
  { <<"a","c","e","t","o","n","e">>, <<"a","m","m","o","n","i","a">>,
    <<"a","s","p","i","r","i","n">>, <<"a","c","e","t","i","c"," ","a","c","i","d">>,
    <<"a","c","e","t","a","m","i","n","o","p","h","e","n">>,
    <<"a","r","g","o","n">>, <<"a","r","s","e","n","i","c">> }

\* the entries of the list of "a" that start with "ac"
NamesOfAc ==
  { <<"a","c","e","t","o","n","e">>, <<"a","c","e","t","i","c"," ","a","c","i","d">>,
    <<"a","c","e","t","a","m","i","n","o","p","h","e","n">> }

\* C16: for the 1- and 2-character queries with candidates ("a", "Ac"), the
\* suggestion endpoint and the batch detail endpoint are never called, at most
\* 10 names are looked up, all of them candidates, and every record returned
\* bears the name of a candidate: one of the seven names of "a", and for "Ac"
\* one that starts with "ac".
C16_ShortQueryUsesTable ==
  (rquery \in {<<"a">>, <<"A","c">>} /\ rpc # "start")
    => LET candidates == IF rquery = <<"a">> THEN NamesOfA ELSE NamesOfAc
       IN  /\ rcalls.auto = <<>>
           /\ rcalls.details = <<>>
           /\ rpc \in {"short", "done"}
           /\ Len(rcalls.names) <= SHORT_CANDIDATES
           /\ { rcalls.names[i] : i \in 1..Len(rcalls.names) } = candidates
           /\ \A i \in 1..Len(rresult) : rresult[i].name \in candidates
           /\ rpc = "done" => Len(rresult) <= Len(rcalls.names)

\* C16 witness: "Ac" has resolved to the three names that start with "ac".
C16_Witness ==
  /\ rpc = "done"
  /\ rquery = <<"A","c">>
  /\ Len(rresult) = 3
  /\ { rresult[i].name : i \in 1..3 } = NamesOfAc

\* C17: for a 1- or 2-character query without candidates ("z" has no list,
\* no name of the list of "a" starts with "ax"), no name of the table is
\* looked up and the suggestion call is issued, once, for that query.
C17_ShortQueryFallsThrough ==
  (rquery \in {<<"z">>, <<"a","x">>} /\ rpc # "start")
    => /\ rpc # "short"
       /\ rcalls.auto = << [query |-> rquery, limit |-> rlimit] >>
       /\ \A i \in 1..Len(rcalls.names) :
            \/ \E k \in 1..Len(SuggestionPool) : rcalls.names[i] = SuggestionPool[k]
            \/ \E k \in 1..Len(LongSuggestions) : rcalls.names[i] = LongSuggestions[k]

\* C17 witness: "ax" has gone through the suggestion call and the lookups
\* of the names suggested.
C17_Witness ==
  /\ rquery = <<"a","x">>
  /\ rpc = "done"
  /\ Len(rcalls.auto) = 1
  /\ Len(rcalls.names) = 2
  /\ Len(rresult) = 2

\* the positions of the fan-out whose lookup produced something usable
succeeded(isShort) ==
  { i \in 1..Len(rdone) : rdone[i] # <<>> /\ (isShort \/ rdone[i][1].cid # 0) }

\* C18: when a fan-out has settled, what it yields (the result of the short
\* path, validCids of the autocomplete path) has exactly one entry per lookup
\* that succeeded, with that lookup's name, in the order of the fan-out; the
\* resolution has not thrown.
C18_FanOutDropsOnlyFailures ==
  /\ rpc # "thrown"
  /\ (rpc = "done" /\ rcalls.auto = <<>> /\ rcalls.names # <<>>)
       => /\ Len(rresult) = Cardinality(succeeded(TRUE))
          /\ \A i \in succeeded(TRUE) :
               rresult[Cardinality({ k \in succeeded(TRUE) : k <= i })].name = rnames[i]
  /\ (rpc \in {"details", "done"} /\ rcalls.auto # <<>> /\ rnames # <<>>)
       => /\ Len(rvalid) = Cardinality(succeeded(FALSE))
          /\ \A i \in succeeded(FALSE) :
               rvalid[Cardinality({ k \in succeeded(FALSE) : k <= i })] =
                 [name |-> rnames[i], cid |-> rdone[i][1].cid]

\* C18 witness: of three lookups the first failed and the second found no
\* identifier; the third is all that is left.
C18_Witness ==
  /\ rpc = "details"
  /\ Len(rdone) = 3
  /\ rdone[1] = <<>>
  /\ rdone[2] # <<>> /\ rdone[2][1].cid = 0
  /\ rvalid = << [name |-> SuggestionPool[3], cid |-> 9] >>

\* C19: the identifiers of the records returned on the autocomplete path are
\* those of the batch detail response, in its order.
C19_OutputInBatchOrder ==
  [][\A o \in DetailOutcomes :
       (o.kind = "ok" /\ RDetailsResponse(o)) => cidsOf(rresult') = o.cids]_vars

\* C19 witness: the identifiers were resolved in the order 5, 2, 9 and the
\* result has them in the order 9, 5, 2.
C19_Witness ==
  /\ rpc = "done"
  /\ cidsOf(rvalid) = <<5, 2, 9>>
  /\ cidsOf(rresult) = <<9, 5, 2>>

\* C20: once the suggestion call or the batch detail call has failed, the
\* resolution is over with the empty list as its value; it never throws.
C20_TransportFailureGivesEmpty ==
  /\ rpc # "thrown"
  /\ rcalls.failed # {} => (rpc = "done" /\ rresult = <<>>)

\* C20 witness: identifiers were resolved and the batch detail call failed.
C20_Witness ==
  /\ "details" \in rcalls.failed
  /\ Len(rvalid) = 2
  /\ rpc = "done"
  /\ rresult = <<>>

\* the forms of each letter of the Latin alphabet, written out by hand: the
\* capital and the small letter, and KELVIN SIGN (U+212A) as a form of k
CaseClasses ==
  { {"A","a"}, {"B","b"}, {"C","c"}, {"D","d"}, {"E","e"}, {"F","f"},
    {"G","g"}, {"H","h"}, {"I","i"}, {"J","j"}, {"K","k","U+212A"}, {"L","l"},
    {"M","m"}, {"N","n"}, {"O","o"}, {"P","p"}, {"Q","q"}, {"R","r"},
    {"S","s"}, {"T","t"}, {"U","u"}, {"V","v"}, {"W","w"}, {"X","x"},
    {"Y","y"}, {"Z","z"} }

\* a and b are the same letter up to case
SameLetter(a, b) == a = b \/ \E S \in CaseClasses : a \in S /\ b \in S

\* q occurs in s as a substring, up to case
OccursIn(q, s) ==
  \E off \in 0..(Len(s) - Len(q)) :
    \A k \in 1..Len(q) : SameLetter(s[off + k], q[k])

\* the catalog positions whose name or formula contains q
MatchingPositions(q) ==
  { p \in 1..Len(popularChemicals) :
      OccursIn(q, popularChemicals[p].name) \/ OccursIn(q, popularChemicals[p].formula) }

\* the i-th smallest element of a set of numbers
Nth(S, i) == CHOOSE p \in S : Cardinality({ m \in S : m < p }) = i - 1

\* the list the search of the current query gives: the catalog entries whose
\* name or formula contains the query up to case, in catalog order, the
\* first 10 of them at most; the empty list for the empty query
LocalIndexResult ==
  last.op = "effect"
    => IF Len(query) = 0
         THEN cachedResults = <<>>
         ELSE /\ Len(cachedResults) =
                   Min(10, Cardinality(MatchingPositions(query)))
              /\ \A i \in 1..Len(cachedResults) :
                   LET entry == popularChemicals[Nth(MatchingPositions(query), i)]
                   IN  /\ cachedResults[i].id = toString(entry.cid)
                       /\ cachedResults[i].name = entry.name
                       /\ cachedResults[i].formula = entry.formula

C21_ResolutionInvokedOncePerQuery ==
  /\ [](/\ \A g \in issued : \A t \in timers : t.gen # g
        /\ \A c, d \in inflight : c.gen = d.gen => c = d
        /\ \A c \in inflight : c.gen \in issued /\ c.limit = API_LIMIT /\ Len(c.q) > 0)
  /\ [][\A t \in timers : Fire(t) =>
          /\ t.gen \notin issued
          /\ t.left = 0
          /\ sinceChange = DEBOUNCE_MS \/ effectPending
          /\ ~effectPending => (t.q = query /\ t.gen = gen)
          /\ inflight' \ inflight =
               { [q |-> t.q, limit |-> API_LIMIT, cached |-> t.cached, gen |-> t.gen] }]_vars
  /\ [][\A c \in inflight : c \notin inflight' =>
          (timers' = timers /\ issued' = issued)]_vars
  /\ (mounted /\ ~effectPending /\ Len(query) > 0 /\ gen \notin issued)
       ~> (gen \in issued \/ ~mounted \/ effectPending)

\* C21 witness: the call issued for the current query has failed; no timer
\* is armed and no call is pending, and the query has not changed.
C21_Witness ==
  /\ mounted
  /\ last.op = "complete"
  /\ last.kind = "throw"
  /\ last.gen = gen
  /\ ~effectPending
  /\ gen \in issued
  /\ Len(query) > 0
  /\ timers = {}
  /\ inflight = {}

\* C22: at most one debounce timer is pending; right after the effect of a
\* query change the only pending timer is the one that effect armed, for the
\* current query with the full delay; and once the component is torn down no
\* remote call is issued: no timer callback runs after the removal.
C22_AtMostOnePendingTimer ==
  /\ Cardinality(timers) <= 1
  /\ (last.op = "effect" =>
        \A t \in timers : t.gen = gen /\ t.q = query /\ t.left = DEBOUNCE_MS)
  /\ (~mounted => last.op # "fire")

\* C23: no identifier occurs twice in the identifier list of a batch detail
\* call, and no two records of the resolution's output have the same
\* identifier.
C23_BatchIdentifiersDeduplicated ==
  /\ \A k \in 1..Len(rcalls.details) :
       \A i, j \in 1..Len(rcalls.details[k]) :
         rcalls.details[k][i] = rcalls.details[k][j] => i = j
  /\ rpc = "done"
       => \A i, j \in 1..Len(rresult) : rresult[i].cid = rresult[j].cid => i = j

\* C24: a resolution makes at most one batch detail call, and none before
\* its name lookups have settled; once they have, the call made carries the
\* identifiers of all lookups that found one, in their order, and when no
\* lookup found one no call is made and the resolution is over with the
\* empty list.
C24_OneBatchDetailCall ==
  /\ Len(rcalls.details) <= 1
  /\ rpc \in {"start", "short", "suggest", "lookups"} => rcalls.details = <<>>
  /\ (rpc \in {"details", "done"} /\ rcalls.auto # <<>> /\ rnames # <<>>)
       => IF succeeded(FALSE) = {}
            THEN rcalls.details = <<>> /\ rpc = "done" /\ rresult = <<>>
            ELSE /\ Len(rcalls.details) = 1
                 /\ Len(rcalls.details[1]) = Cardinality(succeeded(FALSE))
                 /\ \A i \in succeeded(FALSE) :
                      rcalls.details[1][Cardinality({ k \in succeeded(FALSE) : k <= i })]
                        = rdone[i][1].cid

\* C24 witness: of three lookups two found an identifier; the one batch
\* call carried both and the resolution is over.
C24_Witness ==
  /\ rpc = "done"
  /\ Len(rdone) = 3
  /\ rdone[2] = <<>>
  /\ rcalls.details = << <<5, 9>> >>
  /\ Len(rresult) = 2

\* C25: when the suggestion call answers with an empty list, the resolution
\* ends at once with the empty list: no name is looked up, no batch detail
\* call is made, nothing is thrown and no call counts as failed; and a
\* resolution that is over makes no further call.
C25_NoSuggestionsIsTerminal ==
  /\ [][\A o \in SuggestOutcomes :
          (o.kind = "ok" /\ o.names = <<>> /\ RSuggestResponse(o))
            => /\ rpc' = "done"
               /\ rresult' = <<>>
               /\ rcalls'.names = <<>>
               /\ rcalls'.details = <<>>
               /\ rcalls'.failed = {}]_vars
  /\ [][rpc = "done" => rcalls' = rcalls]_vars

\* C25 witness: the suggestion call for "z" was made and succeeded, and the
\* resolution is over without any lookup.
C25_Witness ==
  /\ rpc = "done"
  /\ rquery = <<"z">>
  /\ Len(rcalls.auto) = 1
  /\ rcalls.names = <<>>
  /\ rcalls.details = <<>>
  /\ rcalls.failed = {}
  /\ rresult = <<>>

\* C26: on the autocomplete path the names looked up are the first 20 of the
\* suggestion list, in its order, however long the list is and with the
\* limit 50 passed; the lookups settle in that order, never more than 20 of
\* them, and no batch detail call carries more than 20 identifiers.
C26_AtMostTwentyLookups ==
  /\ [](/\ Len(rcalls.names) <= MAX_SUGGESTIONS
        /\ Len(rdone) <= Len(rnames)
        /\ rcalls.auto # <<>> => (rcalls.names = rnames /\ rcalls.auto[1].limit = API_LIMIT)
        /\ \A k \in 1..Len(rcalls.details) : Len(rcalls.details[k]) <= MAX_SUGGESTIONS)
  /\ [][\A o \in SuggestOutcomes :
          (o.kind = "ok" /\ RSuggestResponse(o))
            => rcalls'.names = SubSeq(o.names, 1, Min(MAX_SUGGESTIONS, Len(o.names)))]_vars

\* C26 witness: the suggestion list had more than 20 names; 20 were looked
\* up, all found an identifier, and the batch detail call carried 20.
C26_Witness ==
  /\ rpc = "done"
  /\ Len(LongSuggestions) > MAX_SUGGESTIONS
  /\ rcalls.names = SubSeq(LongSuggestions, 1, MAX_SUGGESTIONS)
  /\ Len(rdone) = MAX_SUGGESTIONS
  /\ Len(rcalls.details) = 1
  /\ Len(rcalls.details[1]) = MAX_SUGGESTIONS

\* the synthesized labels of the identifiers explored
CompoundLabel ==
     5 :> <<"C","o","m","p","o","u","n","d"," ","5">>
  @@ 2 :> <<"C","o","m","p","o","u","n","d"," ","2">>
  @@ 9 :> <<"C","o","m","p","o","u","n","d"," ","9">>

\* the positions of the resolver pairs with identifier cid
pairsWith(cid) == { k \in 1..Len(rvalid) : rvalid[k].cid = cid }

\* C27: the i-th record returned on the autocomplete path has the identifier
\* of the i-th detail record; its name is the name of the first resolver
\* pair with that identifier, or "Compound <identifier>" when there is no
\* such pair or that name is empty; it is never empty.
C27_DisplayNameOfFirstPair ==
  [][\A o \in DetailOutcomes :
       (o.kind = "ok" /\ RDetailsResponse(o))
         => /\ Len(rresult') = Len(o.cids)
            /\ \A i \in 1..Len(o.cids) :
                 /\ rresult'[i].cid = o.cids[i]
                 /\ rresult'[i].name # <<>>
                 /\ rresult'[i].name =
                      IF pairsWith(o.cids[i]) = {}
                        THEN CompoundLabel[o.cids[i]]
                        ELSE LET first == CHOOSE k \in pairsWith(o.cids[i]) :
                                            \A m \in pairsWith(o.cids[i]) : k <= m
                             IN  IF rvalid[first].name = <<>>
                                   THEN CompoundLabel[o.cids[i]]
                                   ELSE rvalid[first].name]_vars

\* C27 witness: two names resolved to 5 and the empty name to 2; the records
\* of 5, 2 and 9 are named after the first pair of 5, and by the label for
\* the empty name and for the identifier no pair has.
C27_Witness ==
  /\ rpc = "done"
  /\ rvalid = << [name |-> SuggestionPool[1], cid |-> 5],
                 [name |-> <<>>, cid |-> 2],
                 [name |-> SuggestionPool[3], cid |-> 5] >>
  /\ namesOf(rresult) = << SuggestionPool[1], CompoundLabel[2], CompoundLabel[9] >>
  /\ cidsOf(rresult) = <<5, 2, 9>>

\* C30: for the short queries with candidates ("a", "Ac"), exactly the
\* candidates are looked up by name, each once and in the table's order;
\* when all lookups have settled the resolution is over, with the empty
\* list when every lookup failed or found nothing; the suggestion call and
\* the batch detail call are never made.
C30_ShortPathIsFinal ==
  (rquery \in {<<"a">>, <<"A","c">>} /\ rpc # "start")
    => /\ rpc \in {"short", "done"}
       /\ rcalls.auto = <<>>
       /\ rcalls.details = <<>>
       /\ Len(rcalls.names) = Cardinality(IF rquery = <<"a">> THEN NamesOfA ELSE NamesOfAc)
       /\ \A i, j \in 1..Len(rcalls.names) : rcalls.names[i] = rcalls.names[j] => i = j
       /\ \A i \in 1..Len(rcalls.names) : rcalls.names[i] = commonChemicals["a"][
              CHOOSE k \in 1..Len(commonChemicals["a"]) :
                /\ commonChemicals["a"][k] \in (IF rquery = <<"a">> THEN NamesOfA ELSE NamesOfAc)
                /\ Cardinality({ m \in 1..k :
                      commonChemicals["a"][m] \in (IF rquery = <<"a">> THEN NamesOfA ELSE NamesOfAc) }) = i ]
       /\ (rpc = "done" /\ \A i \in 1..Len(rdone) : rdone[i] = <<>>) => rresult = <<>>

\* C30 witness: the seven lookups of "a" have all failed or found nothing
\* and the resolution is over with the empty list.
C30_Witness ==
  /\ rquery = <<"a">>
  /\ rpc = "done"
  /\ Len(rdone) = 7
  /\ \A i \in 1..7 : rdone[i] = <<>>
  /\ Len(rcalls.names) = 7
  /\ rresult = <<>>

\* C28: while the component is mounted, loading is true only if a remote
\* call is in flight; it is false while a timer is pending with no call
\* outstanding, and when nothing is outstanding at all.
C28_LoadingImpliesInFlight ==
  /\ (mounted /\ loading) => inflight # {}
  /\ (mounted /\ inflight = {}) => loading = FALSE
  /\ (mounted /\ last.op \in {"render", "change", "effect", "tick"} /\ issued = {}) => loading = FALSE

\* C28 witness: the timer has fired, the call is in flight and loading is
\* true.
C28_Witness ==
  /\ mounted
  /\ last.op = "fire"
  /\ loading = TRUE
  /\ Cardinality(inflight) = 1
  /\ timers = {}

\* C29 as stated: in every state after the first render in which the
\* component is mounted, the effect of the latest query change pending or
\* not, cachedResults is the list of the Local Index matches of the current
\* query.
C29_CacheFollowsQuery ==
  (mounted /\ last.op # "render")
    => cachedResults = (IF Len(query) = 0 THEN <<>> ELSE searchCached(query))

\* C29: while the component is mounted and the effect of the latest query
\* change has run, cachedResults is the list of the Local Index matches of
\* the current query, empty for the empty query; the render with a new
\* query and the completion of a remote call, for the current query or an
\* earlier one, leave cachedResults as it is.
C29_CacheFollowsQueryOnceEffectRan ==
  /\ []((mounted /\ ~effectPending)
          => cachedResults = (IF Len(query) = 0 THEN <<>> ELSE searchCached(query)))
  /\ [][\A c \in inflight : c \notin inflight' => cachedResults' = cachedResults]_vars
  /\ [][query' # query => cachedResults' = cachedResults]_vars

\* C29 witness: the call of an earlier query has completed with records
\* while "ethanol" is current; cachedResults is the two matches of "ethanol".
C29_Witness ==
  /\ mounted
  /\ last.op = "complete"
  /\ ~last.fresh
  /\ ~effectPending
  /\ last.kind = "ok"
  /\ query = Ethanol
  /\ Len(apiResults) > 0
  /\ Len(cachedResults) = 2
  /\ cachedResults[1].id = <<"7","0","2">>

====
